---- MODULE Spec2Model ----
(***************************************************************************)
(* A model of the gba-go graphics-memory manager: the VRAM manager and its *)
(* page flip (lib/vram/manager.go), the DoubleBuffer / TripleBuffer swap   *)
(* protocol (lib/vram, double buffering), the bitmap pixel access          *)
(* (lib/vram/tiles.go) and the DMA channel 3 handshake of the fast path.   *)
(***************************************************************************)
EXTENDS Integers, Naturals, Sequences, FiniteSets, TLC

(***************************************************************************)
(* Program constants                                                       *)
(***************************************************************************)
VRAM_BASE == 100663296
VRAM_SIZE == 98304
SCREEN_WIDTH == 240
SCREEN_HEIGHT == 160
MODE_0 == 0
MODE_1 == 1
MODE_2 == 2
MODE_3 == 3
MODE_4 == 4
MODE_5 == 5
MODE5_WIDTH == 160
MODE5_HEIGHT == 128
FRAME1_OFFSET == 40960

MODE3_FRAME_SIZE == SCREEN_WIDTH * SCREEN_HEIGHT * 2
MODE4_FRAME_SIZE == SCREEN_WIDTH * SCREEN_HEIGHT
MODE5_FRAME_SIZE == MODE5_WIDTH * MODE5_HEIGHT * 2
FRAME0_ADDR == VRAM_BASE
FRAME1_ADDR == VRAM_BASE + FRAME1_OFFSET

\* DISPCNT bits: background 2 enable, frame (page) select, sprite enable.
BG2_ENABLE == 2^10
FRAME_SELECT == 2^4
OBJ_ENABLE == 2^12

\* DMA control flags (lib/vram, DMA acceleration)
DMA_ENABLE == 2^15
DMA_TIMING_IMMD == 0 * 2^12
DMA_32BIT == 1 * 2^10
DMA_INC == 0 * 2^7
DMA_SRC_INC == 0 * 2^9
DMA_SRC_FIXED == 2 * 2^9

\* Bound: RequestSwap calls counted between two draining Update calls.
MaxRequests == 2

(***************************************************************************)
(* Machine arithmetic on unsigned words                                    *)
(***************************************************************************)
RECURSIVE BitOr(_, _)
BitOr(a, b) ==
    IF a = 0 THEN b
    ELSE IF b = 0 THEN a
    ELSE (IF a % 2 = 1 \/ b % 2 = 1 THEN 1 ELSE 0) + 2 * BitOr(a \div 2, b \div 2)

RECURSIVE BitAnd(_, _)
BitAnd(a, b) ==
    IF a = 0 \/ b = 0 THEN 0
    ELSE (IF a % 2 = 1 /\ b % 2 = 1 THEN 1 ELSE 0) + 2 * BitAnd(a \div 2, b \div 2)

Bit(v, i) == (v \div (2^i)) % 2

U16(v) == v % 65536

\* The int of the target is 32 bits wide: its largest and smallest values, and
\* its sum, difference and product, which wrap around.
MaxInt == 2147483647

MinInt == 0 - MaxInt - 1

AddInt(a, b) ==
    IF a > 0 /\ b > 0 /\ a > MaxInt - b THEN (a + MinInt) + (b + MinInt)
    ELSE IF a < 0 /\ b < 0 /\ a < MinInt - b THEN (a - MinInt) + (b - MinInt)
    ELSE a + b

SubInt(a, b) ==
    IF b = MinInt THEN AddInt(AddInt(a, MaxInt), 1) ELSE AddInt(a, 0 - b)

\* a * n for a non-negative n, by doubling where the product may not fit
RECURSIVE MulInt(_, _)
MulInt(a, n) ==
    IF n = 0 THEN 0
    ELSE IF a > 0 - 32768 /\ a < 32768 /\ n < 32768 THEN a * n
    ELSE IF n % 2 = 1 THEN AddInt(MulInt(AddInt(a, a), n \div 2), a)
    ELSE MulInt(AddInt(a, a), n \div 2)

(***************************************************************************)
(* VRAMManager (lib/vram/manager.go)                                       *)
(***************************************************************************)
\* The mode selectors a caller passes: the six declared ones and one that
\* SetMode does not recognise.
Modes == {MODE_0, MODE_1, MODE_2, MODE_3, MODE_4, MODE_5, 6}

SetMode(v, mode) ==
    IF mode = MODE_3 THEN
        [v EXCEPT !.mode = mode, !.frameSize = MODE3_FRAME_SIZE,
                  !.width = SCREEN_WIDTH, !.height = SCREEN_HEIGHT, !.bpp = 16]
    ELSE IF mode = MODE_4 THEN
        [v EXCEPT !.mode = mode, !.frameSize = MODE4_FRAME_SIZE,
                  !.width = SCREEN_WIDTH, !.height = SCREEN_HEIGHT, !.bpp = 8]
    ELSE IF mode = MODE_5 THEN
        [v EXCEPT !.mode = mode, !.frameSize = MODE5_FRAME_SIZE,
                  !.width = MODE5_WIDTH, !.height = MODE5_HEIGHT, !.bpp = 16]
    ELSE
        [v EXCEPT !.mode = mode, !.frameSize = MODE3_FRAME_SIZE,
                  !.width = SCREEN_WIDTH, !.height = SCREEN_HEIGHT, !.bpp = 16]

NewVRAMManager(mode) ==
    SetMode([mode |-> mode, frameSize |-> 0, width |-> 0,
             height |-> 0, bpp |-> 0, currentPage |-> 0], mode)

SupportsDoubleBuffering(v) == v.mode = MODE_4 \/ v.mode = MODE_5

BufferAt(v, base) ==
    [width |-> v.width, height |-> v.height, bpp |-> v.bpp, base |-> base]

GetCurrentBuffer(v) ==
    IF ~SupportsDoubleBuffering(v) THEN BufferAt(v, FRAME0_ADDR)
    ELSE IF v.currentPage = 0 THEN BufferAt(v, FRAME0_ADDR)
    ELSE BufferAt(v, FRAME1_ADDR)

\* A back buffer that is the page being displayed.
GetBackBuffer_Displayed(v) == GetCurrentBuffer(v)

GetBackBuffer(v) ==
    IF ~SupportsDoubleBuffering(v) THEN GetCurrentBuffer(v)
    ELSE IF v.currentPage = 0 THEN BufferAt(v, FRAME1_ADDR)
    ELSE BufferAt(v, FRAME0_ADDR)

\* A page flip that does not ask whether the mode has two pages.
SwapBuffers_Unguarded(v) == [v EXCEPT !.currentPage = 1 - v.currentPage]

SwapBuffers(v) ==
    IF SupportsDoubleBuffering(v)
    THEN [v EXCEPT !.currentPage = 1 - v.currentPage]
    ELSE v

InVRAMBounds(addr) == addr >= VRAM_BASE /\ addr < VRAM_BASE + VRAM_SIZE

(***************************************************************************)
(* BitmapBuffer (lib/vram/tiles.go)                                        *)
(* Frame memory is a function from halfword addresses to 16-bit values;    *)
(* its domain is the window of cells a specification keeps track of.       *)
(***************************************************************************)
Load16(mem, addr) == IF addr \in DOMAIN mem THEN mem[addr] ELSE 0

Store16(mem, addr, value) ==
    IF addr \in DOMAIN mem THEN [mem EXCEPT ![addr] = U16(value)] ELSE mem

\* A bounds check that lets the column and the row just past the buffer through.
InBounds_Inclusive(bb, x, y) == x >= 0 /\ x <= bb.width /\ y >= 0 /\ y <= bb.height

InBounds(bb, x, y) == x >= 0 /\ x < bb.width /\ y >= 0 /\ y < bb.height

\* y*bb.width + x in int arithmetic
PixelOffset(bb, x, y) == AddInt(MulInt(y, bb.width), x)

\* An address is a uintptr; it is written here as the int with the same 32
\* bits, so that every address below 2^31 is itself.
getPixelAddr(bb, x, y) ==
    IF bb.bpp = 16 THEN AddInt(bb.base, MulInt(PixelOffset(bb, x, y), 2))
    ELSE AddInt(bb.base, PixelOffset(bb, x, y))

\* The halfword an 8-bit pixel lives in: bb.base + (offset &^ 1).
PixelWord(bb, x, y) ==
    LET offset == PixelOffset(bb, x, y) IN AddInt(bb.base, offset - (offset % 2))

\* A pixel write that stores the colour into the whole halfword of an 8-bit pixel.
PlotPixelFast_WholeWord(bb, mem, x, y, color) ==
    IF bb.bpp = 16 THEN Store16(mem, getPixelAddr(bb, x, y), color)
    ELSE Store16(mem, PixelWord(bb, x, y), BitAnd(color, 255) * 257)

PlotPixelFast(bb, mem, x, y, color) ==
    IF bb.bpp = 16 THEN Store16(mem, getPixelAddr(bb, x, y), color)
    ELSE LET offset  == PixelOffset(bb, x, y)
             current == Load16(mem, PixelWord(bb, x, y))
         IN IF offset % 2 = 0
            THEN Store16(mem, PixelWord(bb, x, y),
                         BitOr(BitAnd(current, 65280), BitAnd(color, 255)))
            ELSE Store16(mem, PixelWord(bb, x, y),
                         BitOr(BitAnd(current, 255), BitAnd(color, 255) * 256))

\* PlotPixel returns nil exactly when both of its checks pass.
PlotPixelOk(bb, x, y) == InBounds(bb, x, y) /\ InVRAMBounds(getPixelAddr(bb, x, y))

PlotPixel(bb, mem, x, y, color) ==
    IF PlotPixelOk(bb, x, y) THEN PlotPixelFast(bb, mem, x, y, color) ELSE mem

\* A GetPixel that takes the low byte of the halfword for every 8-bit pixel.
GetPixel_LowByte(bb, mem, x, y) ==
    IF ~PlotPixelOk(bb, x, y) THEN 0
    ELSE IF bb.bpp = 16 THEN Load16(mem, getPixelAddr(bb, x, y))
    ELSE BitAnd(Load16(mem, PixelWord(bb, x, y)), 255)

\* GetPixel's value (0 together with an error when a check fails).
GetPixel(bb, mem, x, y) ==
    IF ~PlotPixelOk(bb, x, y) THEN 0
    ELSE IF bb.bpp = 16 THEN Load16(mem, getPixelAddr(bb, x, y))
    ELSE LET offset == PixelOffset(bb, x, y)
             value  == Load16(mem, PixelWord(bb, x, y))
         IN IF offset % 2 = 0 THEN BitAnd(value, 255) ELSE value \div 256

\* The clamp FillRect and FastFill both start with.
ClampRect(bb, x, y, width, height) ==
    LET w1 == IF x < 0 THEN AddInt(width, x) ELSE width
        x1 == IF x < 0 THEN 0 ELSE x
        h1 == IF y < 0 THEN AddInt(height, y) ELSE height
        y1 == IF y < 0 THEN 0 ELSE y
        w2 == IF AddInt(x1, w1) > bb.width THEN SubInt(bb.width, x1) ELSE w1
        h2 == IF AddInt(y1, h1) > bb.height THEN SubInt(bb.height, y1) ELSE h1
    IN [width |-> w2, height |-> h2, x |-> x1, y |-> y1]

\* FillRect's inner loop, for dx from lo up to hi - 1 in ascending order: the
\* first half of the range, then the second
\* (with no cell in the window there is nothing for the loop to change)
RECURSIVE FillSpan(_, _, _, _, _, _, _)
FillSpan(bb, mem, r, color, dy, lo, hi) ==
    IF lo >= hi \/ DOMAIN mem = {} THEN mem
    ELSE IF hi = lo + 1 THEN PlotPixelFast(bb, mem, AddInt(r.x, lo), AddInt(r.y, dy), color)
    ELSE FillSpan(bb, FillSpan(bb, mem, r, color, dy, lo, (lo + hi) \div 2),
                  r, color, dy, (lo + hi) \div 2, hi)

\* FillRect's inner loop: for dx := 0; dx < width; dx++
FillRow(bb, mem, r, color, dy, dx) == FillSpan(bb, mem, r, color, dy, dx, r.width)

\* FillRect's outer loop, for dy from lo up to hi - 1 in ascending order.
RECURSIVE FillRowSpan(_, _, _, _, _, _)
FillRowSpan(bb, mem, r, color, lo, hi) ==
    IF lo >= hi \/ DOMAIN mem = {} THEN mem
    ELSE IF hi = lo + 1 THEN FillRow(bb, mem, r, color, lo, 0)
    ELSE FillRowSpan(bb, FillRowSpan(bb, mem, r, color, lo, (lo + hi) \div 2),
                     r, color, (lo + hi) \div 2, hi)

\* FillRect's outer loop: for dy := 0; dy < height; dy++
FillRows(bb, mem, r, color, dy) == FillRowSpan(bb, mem, r, color, dy, r.height)

FillRect(bb, mem, x, y, width, height, color) ==
    LET r == ClampRect(bb, x, y, width, height) IN
    IF r.width <= 0 \/ r.height <= 0 THEN mem
    ELSE FillRows(bb, mem, r, color, 0)

\* CopyFrom's clamp cascade, first against the source, then the destination.
ClampCopy(bb, src, srcX, srcY, dstX, dstY, width, height) ==
    LET w1  == IF srcX < 0 THEN AddInt(width, srcX) ELSE width
        dx1 == IF srcX < 0 THEN SubInt(dstX, srcX) ELSE dstX
        sx1 == IF srcX < 0 THEN 0 ELSE srcX
        h1  == IF srcY < 0 THEN AddInt(height, srcY) ELSE height
        dy1 == IF srcY < 0 THEN SubInt(dstY, srcY) ELSE dstY
        sy1 == IF srcY < 0 THEN 0 ELSE srcY
        w2  == IF AddInt(sx1, w1) > src.width THEN SubInt(src.width, sx1) ELSE w1
        h2  == IF AddInt(sy1, h1) > src.height THEN SubInt(src.height, sy1) ELSE h1
        w3  == IF dx1 < 0 THEN AddInt(w2, dx1) ELSE w2
        sx2 == IF dx1 < 0 THEN SubInt(sx1, dx1) ELSE sx1
        dx2 == IF dx1 < 0 THEN 0 ELSE dx1
        h3  == IF dy1 < 0 THEN AddInt(h2, dy1) ELSE h2
        sy2 == IF dy1 < 0 THEN SubInt(sy1, dy1) ELSE sy1
        dy2 == IF dy1 < 0 THEN 0 ELSE dy1
        w4  == IF AddInt(dx2, w3) > bb.width THEN SubInt(bb.width, dx2) ELSE w3
        h4  == IF AddInt(dy2, h3) > bb.height THEN SubInt(bb.height, dy2) ELSE h3
    IN [width |-> w4, height |-> h4, srcX |-> sx2, srcY |-> sy2,
        dstX |-> dx2, dstY |-> dy2]

\* One turn of CopyFrom's inner loop: the pixel is copied when the source's
\* GetPixel succeeds.
CopyPixel(bb, src, mem, r, dy, dx) ==
    IF PlotPixelOk(src, AddInt(r.srcX, dx), AddInt(r.srcY, dy))
    THEN PlotPixelFast(bb, mem, AddInt(r.dstX, dx), AddInt(r.dstY, dy),
                       GetPixel(src, mem, AddInt(r.srcX, dx), AddInt(r.srcY, dy)))
    ELSE mem

\* CopyFrom's inner loop, for dx from lo up to hi - 1 in ascending order.
RECURSIVE CopySpan(_, _, _, _, _, _, _)
CopySpan(bb, src, mem, r, dy, lo, hi) ==
    IF lo >= hi \/ DOMAIN mem = {} THEN mem
    ELSE IF hi = lo + 1 THEN CopyPixel(bb, src, mem, r, dy, lo)
    ELSE CopySpan(bb, src, CopySpan(bb, src, mem, r, dy, lo, (lo + hi) \div 2),
                  r, dy, (lo + hi) \div 2, hi)

\* CopyFrom's inner loop: for dx := 0; dx < width; dx++
CopyRow(bb, src, mem, r, dy, dx) == CopySpan(bb, src, mem, r, dy, dx, r.width)

\* CopyFrom's outer loop, for dy from lo up to hi - 1 in ascending order.
RECURSIVE CopyRowSpan(_, _, _, _, _, _)
CopyRowSpan(bb, src, mem, r, lo, hi) ==
    IF lo >= hi \/ DOMAIN mem = {} THEN mem
    ELSE IF hi = lo + 1 THEN CopyRow(bb, src, mem, r, lo, 0)
    ELSE CopyRowSpan(bb, src, CopyRowSpan(bb, src, mem, r, lo, (lo + hi) \div 2),
                     r, (lo + hi) \div 2, hi)

\* CopyFrom's outer loop: for dy := 0; dy < height; dy++
CopyRows(bb, src, mem, r, dy) == CopyRowSpan(bb, src, mem, r, dy, r.height)

CopyFrom(bb, src, mem, srcX, srcY, dstX, dstY, width, height) ==
    LET r == ClampCopy(bb, src, srcX, srcY, dstX, dstY, width, height) IN
    IF r.width <= 0 \/ r.height <= 0 THEN mem
    ELSE CopyRows(bb, src, mem, r, 0)


(***************************************************************************)
(* State                                                                   *)
(***************************************************************************)
VARIABLES
    obj,            \* which buffering object the program holds: "double" | "triple"
    vm,             \* its VRAMManager
    frontBuffer,    \* cached view of the displayed page
    backBuffer,     \* cached view of the page drawn to
    displayBuffer,  \* TripleBuffer.displayBuffer
    vsyncEnabled,
    swapRequested,  \* TripleBuffer.swapRequested
    wasEnabled,     \* SwapWithoutVSync's local
    DISPCNT,        \* the LCD control register
    pc,             \* position of the control flow inside the current call
    call,           \* the API call in progress, or the last one that returned
    trace,          \* the steps the current (or last) swapping call has taken
    entry,          \* page, vsync, pending flag and memory when that call began
    hist,           \* what the last consecutive Swap calls started from, newest first
    requests,       \* RequestSwap calls since the pending flag was last cleared
    lastPlot,       \* the last PlotPixel on the back buffer and the swaps since
    ret,            \* arguments and result of the last drawing or region call
    vram,           \* frame memory: halfword address -> 16-bit value (tracked cells)
    DMA3SAD,        \* DMA channel 3 source address register
    DMA3DAD,        \* DMA channel 3 destination address register
    DMA3CNT_L,      \* DMA channel 3 word count register
    DMA3CNT_H,      \* DMA channel 3 control register (bit 15: enable / busy)
    dpc,            \* per execution context: position inside dma3Fill32 / dma3Copy32
    dargs,          \* per execution context: the arguments of that call
    active,         \* the transfer the channel latched when it was enabled
    fast,           \* the FastFill / FastCopy call in progress in the main flow
    lastState,      \* package input: the keypad bits of the poll before the latest
    currentState,   \* package input: the keypad bits of the latest poll
    drawPage        \* package drawing: the page Display() flips with

bufferVars == <<obj, vm, frontBuffer, backBuffer, displayBuffer, vsyncEnabled,
                swapRequested, wasEnabled, DISPCNT, pc, call, trace, entry, hist,
                requests, lastPlot, ret>>

dmaVars == <<DMA3SAD, DMA3DAD, DMA3CNT_L, DMA3CNT_H, dpc, dargs, active, fast>>

packageVars == <<lastState, currentState, drawPage>>

vars == <<bufferVars, vram, dmaVars, packageVars>>

\* A display-control update that rewrites only the page bit of the value it
\* reads back from the register.
updateDisplayControl_PageBitOnly(v) ==
    (DISPCNT - Bit(DISPCNT, 4) * FRAME_SELECT) + v.currentPage * FRAME_SELECT

\* The value DoubleBuffer.updateDisplayControl / TripleBuffer.updateDisplayControl
\* hands to DISPCNT.Set: a full register value, computed from the manager alone.
updateDisplayControl(v) ==
    IF v.currentPage = 1
    THEN BitOr(BitOr(U16(v.mode), BG2_ENABLE), FRAME_SELECT)
    ELSE BitOr(U16(v.mode), BG2_ENABLE)

NoMemory == <<>>

NoEntry == [mem |-> NoMemory, page |-> 0, vsync |-> FALSE, req |-> FALSE, nreq |-> 0]

NoPlot == [base |-> 0, x |-> 0, y |-> 0, color |-> 0, valid |-> FALSE, swaps |-> 0]

NoBuffer == [width |-> 0, height |-> 0, bpp |-> 0, base |-> 0]

\* No drawing or region call has returned yet.
NoRet == [value |-> 0, bb |-> NoBuffer, src |-> NoBuffer, args |-> <<>>,
          err |-> FALSE]

\* What swap(); swap() is compared against: the state a Swap call starts from.
Snapshot ==
    [page |-> vm.currentPage, front |-> frontBuffer.base, back |-> backBuffer.base,
     bit |-> Bit(DISPCNT, 4)]

Remember == IF hist = <<>> THEN <<Snapshot>> ELSE <<Snapshot, hist[1]>>

\* Book-keeping of an API call that is not a swap.
Called(name) ==
    /\ call' = name
    /\ trace' = <<>>
    /\ entry' = NoEntry
    /\ hist' = <<>>
    /\ lastPlot' = NoPlot

\* Book-keeping of a call that starts the swap protocol.
SwapCalled(name, vs, req) ==
    /\ call' = name
    /\ trace' = <<>>
    /\ entry' = [mem |-> vram, page |-> vm.currentPage, vsync |-> vs,
                 req |-> req, nreq |-> requests]
    /\ lastPlot' = IF lastPlot.valid /\ lastPlot.swaps = 0
                   THEN [lastPlot EXCEPT !.swaps = 1]
                   ELSE NoPlot

\* The register value the caller programs before creating the buffers
\* (examples/main.go: DISPCNT.Set(MODE_4 | (1 << 10))), with or without sprites.
InitialDISPCNT(mode) ==
    {BitOr(mode, BG2_ENABLE), BitOr(BitOr(mode, BG2_ENABLE), OBJ_ENABLE)}

\* NewDoubleBuffer / NewTripleBuffer for a mode that supports double buffering.
Constructed(kind, mode) ==
    LET m == NewVRAMManager(mode) IN
    /\ obj' = kind
    /\ vm' = m
    /\ frontBuffer' = GetCurrentBuffer(m)
    /\ backBuffer' = GetBackBuffer(m)
    /\ displayBuffer' = GetCurrentBuffer(m)
    /\ vsyncEnabled' = TRUE
    /\ swapRequested' = FALSE
    /\ requests' = 0

InitBuffers(kinds) ==
    \E kind \in kinds, mode \in {MODE_4, MODE_5} :
        LET m == NewVRAMManager(mode) IN
        /\ obj = kind
        /\ vm = m
        /\ frontBuffer = GetCurrentBuffer(m)
        /\ backBuffer = GetBackBuffer(m)
        /\ displayBuffer = GetCurrentBuffer(m)
        /\ vsyncEnabled = TRUE
        /\ swapRequested = FALSE
        /\ wasEnabled = FALSE
        /\ DISPCNT \in InitialDISPCNT(mode)
        /\ pc = "idle"
        /\ call = "New"
        /\ trace = <<>>
        /\ entry = NoEntry
        /\ hist = <<>>
        /\ requests = 0
        /\ lastPlot = NoPlot
        /\ ret = NoRet

\* The DMA channel at rest, with no call in progress in either context.
\* A uint32 as its low and high halfwords: lo | hi << 16
Word32(lo, hi) == [lo |-> lo, hi |-> hi]

NoRect == [width |-> 0, height |-> 0, x |-> 0, y |-> 0]

NoArgs == [value |-> Word32(0, 0), src |-> 0, op |-> "none", dst |-> 0, count |-> 0,
           rect |-> NoRect, log |-> <<>>]

NoTransfer == [src |-> 0, dst |-> 0, count |-> 0, on |-> FALSE, by |-> "none"]

\* No FastFill / FastCopy call in progress. A call in progress keeps its buffers,
\* arguments, the steps still to take and the steps taken so far.
NoFast == [bb |-> NoBuffer, color |-> 0, src |-> NoBuffer, op |-> "none",
           rect |-> NoRect, steps |-> <<>>, taken |-> <<>>]

\* The package-level variables of input and of drawing as they are declared.
InitPackages == lastState = 1023 /\ currentState = 1023 /\ drawPage = 1

InitChannelIdle ==
    /\ DMA3SAD = 0
    /\ DMA3DAD = 0
    /\ DMA3CNT_L = 0
    /\ DMA3CNT_H = 0
    /\ dpc = [c \in {"main", "irq"} |-> "idle"]
    /\ dargs = [c \in {"main", "irq"} |-> NoArgs]
    /\ active = NoTransfer
    /\ fast = NoFast

(***************************************************************************)
(* DoubleBuffer                                                            *)
(***************************************************************************)
\* A swap that never waits for the vertical blank.
SwapEntry_NoWait(vs) == "flip"

\* Swap's first statement: if db.vsyncEnabled { video.VSync() }

SwapEntry(vs) == IF vs THEN "vsync" ELSE "flip"

NewDoubleBuffer(mode) ==
    /\ pc = "idle"
    /\ IF SupportsDoubleBuffering(NewVRAMManager(mode))
       THEN Constructed("double", mode)
       ELSE UNCHANGED <<packageVars, ret, obj, vm, frontBuffer, backBuffer, displayBuffer,
                        vsyncEnabled, swapRequested, requests>>
    /\ Called("New")
    /\ UNCHANGED <<packageVars, ret, wasEnabled, DISPCNT, pc, vram, dmaVars>>

Swap(api) ==
    /\ pc = "idle"
    /\ fast.op = "none"
    /\ obj = "double"
    /\ SwapCalled(api, vsyncEnabled, FALSE)
    /\ hist' = Remember
    /\ pc' = SwapEntry(vsyncEnabled)
    /\ UNCHANGED <<packageVars, ret, obj, vm, frontBuffer, backBuffer, displayBuffer, vsyncEnabled,
                   swapRequested, wasEnabled, DISPCNT, requests, vram, dmaVars>>

SwapWithoutVSync ==
    /\ pc = "idle"
    /\ fast.op = "none"
    /\ obj = "double"
    /\ wasEnabled' = vsyncEnabled
    /\ vsyncEnabled' = FALSE
    /\ SwapCalled("SwapWithoutVSync", vsyncEnabled', FALSE)
    /\ hist' = Remember
    /\ pc' = SwapEntry(vsyncEnabled')
    /\ UNCHANGED <<packageVars, ret, obj, vm, frontBuffer, backBuffer, displayBuffer,
                   swapRequested, DISPCNT, requests, vram, dmaVars>>

\* video.VSync() returns: the vertical-blank edge the call was blocked on arrives.
VSync ==
    /\ pc = "vsync"
    /\ trace' = Append(trace, "vsync")
    /\ pc' = IF call = "Update" THEN "tflip" ELSE "flip"
    /\ UNCHANGED <<packageVars, ret, obj, vm, frontBuffer, backBuffer, displayBuffer, vsyncEnabled,
                   swapRequested, wasEnabled, DISPCNT, call, entry, hist,
                   requests, lastPlot, vram, dmaVars>>

SwapFlip ==
    /\ pc = "flip"
    /\ vm' = SwapBuffers(vm)
    /\ trace' = Append(trace, "flip")
    /\ pc' = "views"
    /\ UNCHANGED <<packageVars, ret, obj, frontBuffer, backBuffer, displayBuffer, vsyncEnabled,
                   swapRequested, wasEnabled, DISPCNT, call, entry, hist,
                   requests, lastPlot, vram, dmaVars>>

\* A swap that hands out a cleared back buffer.
SwapViews_ClearsBack ==
    /\ pc = "views"
    /\ frontBuffer' = GetCurrentBuffer(vm)
    /\ backBuffer' = GetBackBuffer(vm)
    /\ vram' = [a \in DOMAIN vram |->
                  IF a >= backBuffer'.base /\ a < backBuffer'.base + vm.frameSize
                  THEN 0 ELSE vram[a]]
    /\ trace' = Append(trace, "views")
    /\ pc' = "write"
    /\ UNCHANGED <<packageVars, ret, obj, vm, displayBuffer, vsyncEnabled, swapRequested,
                   wasEnabled, DISPCNT, call, entry, hist, requests, lastPlot,
                   dmaVars>>

SwapViews ==
    /\ pc = "views"
    /\ frontBuffer' = GetCurrentBuffer(vm)
    /\ backBuffer' = GetBackBuffer(vm)
    /\ trace' = Append(trace, "views")
    /\ pc' = "write"
    /\ UNCHANGED <<packageVars, ret, obj, vm, displayBuffer, vsyncEnabled, swapRequested,
                   wasEnabled, DISPCNT, call, entry, hist, requests, lastPlot,
                   vram, dmaVars>>

SwapWrite ==
    /\ pc = "write"
    /\ DISPCNT' = updateDisplayControl(vm)
    /\ trace' = Append(trace, "write")
    /\ pc' = IF call = "SwapWithoutVSync" THEN "restore" ELSE "idle"
    /\ UNCHANGED <<packageVars, ret, obj, vm, frontBuffer, backBuffer, displayBuffer, vsyncEnabled,
                   swapRequested, wasEnabled, call, entry, hist, requests,
                   lastPlot, vram, dmaVars>>

SwapRestore ==
    /\ pc = "restore"
    /\ vsyncEnabled' = wasEnabled
    /\ pc' = "idle"
    /\ UNCHANGED <<packageVars, ret, obj, vm, frontBuffer, backBuffer, displayBuffer,
                   swapRequested, wasEnabled, DISPCNT, call, trace, entry, hist,
                   requests, lastPlot, vram, dmaVars>>

SetVSync(enabled) ==
    /\ pc = "idle"
    /\ obj = "double"
    /\ vsyncEnabled' = enabled
    /\ Called("SetVSync")
    /\ UNCHANGED <<packageVars, ret, obj, vm, frontBuffer, backBuffer, displayBuffer,
                   swapRequested, wasEnabled, DISPCNT, pc, requests, vram,
                   dmaVars>>

\* db.GetManager().SetMode(mode)
ManagerSetMode(mode) ==
    /\ pc = "idle"
    /\ obj = "double"
    /\ vm' = SetMode(vm, mode)
    /\ Called("SetMode")
    /\ UNCHANGED <<packageVars, ret, obj, frontBuffer, backBuffer, displayBuffer, vsyncEnabled,
                   swapRequested, wasEnabled, DISPCNT, pc, requests, vram,
                   dmaVars>>

\* db.GetManager().SwapBuffers()
ManagerSwapBuffers ==
    /\ pc = "idle"
    /\ obj = "double"
    /\ vm' = SwapBuffers(vm)
    /\ call' = "SwapBuffers"
    /\ trace' = <<>>
    /\ entry' = [NoEntry EXCEPT !.page = vm.currentPage]
    /\ hist' = <<>>
    /\ lastPlot' = NoPlot
    /\ UNCHANGED <<packageVars, ret, obj, frontBuffer, backBuffer, displayBuffer, vsyncEnabled,
                   swapRequested, wasEnabled, DISPCNT, pc, requests, vram,
                   dmaVars>>

(***************************************************************************)
(* TripleBuffer                                                            *)
(***************************************************************************)
NewTripleBuffer(mode) ==
    /\ pc = "idle"
    /\ IF SupportsDoubleBuffering(NewVRAMManager(mode))
       THEN Constructed("triple", mode)
       ELSE UNCHANGED <<packageVars, ret, obj, vm, frontBuffer, backBuffer, displayBuffer,
                        vsyncEnabled, swapRequested, requests>>
    /\ Called("New")
    /\ UNCHANGED <<packageVars, ret, wasEnabled, DISPCNT, pc, vram, dmaVars>>

RequestSwap ==
    /\ pc = "idle"
    /\ obj = "triple"
    /\ requests < MaxRequests
    /\ swapRequested' = TRUE
    /\ requests' = requests + 1
    /\ Called("RequestSwap")
    /\ UNCHANGED <<packageVars, ret, obj, vm, frontBuffer, backBuffer, displayBuffer, vsyncEnabled,
                   wasEnabled, DISPCNT, pc, vram, dmaVars>>

\* An Update that clears the flag without running the swap.
Update_DropsRequest ==
    /\ pc = "idle"
    /\ obj = "triple"
    /\ SwapCalled("Update", vsyncEnabled, swapRequested)
    /\ hist' = <<>>
    /\ swapRequested' = FALSE
    /\ requests' = 0
    /\ UNCHANGED <<packageVars, ret, obj, vm, frontBuffer, backBuffer, displayBuffer, vsyncEnabled,
                   wasEnabled, DISPCNT, pc, vram, dmaVars>>

Update ==
    /\ pc = "idle"
    /\ obj = "triple"
    /\ SwapCalled("Update", vsyncEnabled, swapRequested)
    /\ hist' = <<>>
    /\ pc' = IF ~swapRequested THEN "idle"
             ELSE IF vsyncEnabled THEN "vsync" ELSE "tflip"
    /\ UNCHANGED <<packageVars, ret, obj, vm, frontBuffer, backBuffer, displayBuffer, vsyncEnabled,
                   swapRequested, wasEnabled, DISPCNT, requests, vram, dmaVars>>

UpdateFlip ==
    /\ pc = "tflip"
    /\ vm' = SwapBuffers(vm)
    /\ trace' = Append(trace, "flip")
    /\ pc' = "tviews"
    /\ UNCHANGED <<packageVars, ret, obj, frontBuffer, backBuffer, displayBuffer, vsyncEnabled,
                   swapRequested, wasEnabled, DISPCNT, call, entry, hist,
                   requests, lastPlot, vram, dmaVars>>

UpdateViews ==
    /\ pc = "tviews"
    /\ frontBuffer' = GetCurrentBuffer(vm)
    /\ backBuffer' = GetBackBuffer(vm)
    /\ displayBuffer' = frontBuffer'
    /\ trace' = Append(trace, "views")
    /\ pc' = "twrite"
    /\ UNCHANGED <<packageVars, ret, obj, vm, vsyncEnabled, swapRequested, wasEnabled, DISPCNT,
                   call, entry, hist, requests, lastPlot, vram, dmaVars>>

UpdateWrite ==
    /\ pc = "twrite"
    /\ DISPCNT' = updateDisplayControl(vm)
    /\ swapRequested' = FALSE
    /\ requests' = 0
    /\ trace' = Append(trace, "write")
    /\ pc' = "idle"
    /\ UNCHANGED <<packageVars, ret, obj, vm, frontBuffer, backBuffer, displayBuffer, vsyncEnabled,
                   wasEnabled, call, entry, hist, lastPlot, vram, dmaVars>>

TripleSetVSync(enabled) ==
    /\ pc = "idle"
    /\ obj = "triple"
    /\ vsyncEnabled' = enabled
    /\ Called("SetVSync")
    /\ UNCHANGED <<packageVars, ret, obj, vm, frontBuffer, backBuffer, displayBuffer,
                   swapRequested, wasEnabled, DISPCNT, pc, requests, vram,
                   dmaVars>>

(***************************************************************************)
(* The buffering objects under every call sequence                         *)
(***************************************************************************)
(***************************************************************************)
(* Drawing on the back buffer between swaps                                *)
(***************************************************************************)
\* The pixels and colours a caller plots: two neighbours that share a halfword
\* in 8-bit depth, one column past the right edge, one column before the left.
SamplePixels == {<<10, 10>>, <<11, 10>>, <<SCREEN_WIDTH, 10>>, <<0 - 1, 0>>}

SampleColors == {5, 503}

\* The halfwords of both pages that hold the in-range sample pixels.
Window(m) ==
    {IF m.bpp = 16 THEN getPixelAddr(BufferAt(m, base), p[1], p[2])
                   ELSE PixelWord(BufferAt(m, base), p[1], p[2]) :
        base \in {FRAME0_ADDR, FRAME1_ADDR},
        p \in {q \in SamplePixels : InBounds(BufferAt(m, FRAME0_ADDR), q[1], q[2])}}

\* db.GetBackBuffer().PlotPixel(x, y, color)
PlotBack(x, y, color) ==
    /\ pc = "idle"
    /\ obj = "double"
    /\ vram' = PlotPixel(backBuffer, vram, x, y, color)
    /\ call' = "PlotPixel"
    /\ trace' = <<>>
    /\ entry' = NoEntry
    /\ hist' = <<>>
    /\ lastPlot' = IF PlotPixelOk(backBuffer, x, y)
                   THEN [base |-> backBuffer.base, x |-> x, y |-> y, color |-> color,
                         valid |-> TRUE, swaps |-> 0]
                   ELSE NoPlot
    /\ UNCHANGED <<packageVars, ret, obj, vm, frontBuffer, backBuffer, displayBuffer, vsyncEnabled,
                   swapRequested, wasEnabled, DISPCNT, pc, requests, dmaVars>>


(***************************************************************************)
(* DMA channel 3: dma3Fill32 / dma3Copy32 and the channel they drive       *)
(***************************************************************************)
Contexts == {"main", "irq"}

\* The channel's enable bit reads as set: DMA3CNT_H.Get() & DMA_ENABLE != 0
GetDMAStatus == Bit(DMA3CNT_H, 15) = 1

\* An interrupt handler runs to its end before the application flow resumes.
HasCPU(c) == c = "irq" \/ dpc["irq"] = "idle"

\* &value: where the fill value of the running dma3Fill32 call lives.
ValueAddr(c) == IF c = "main" THEN 50364160 ELSE 50363904

FillControl ==
    U16(BitOr(BitOr(BitOr(BitOr(DMA_ENABLE, DMA_32BIT), DMA_SRC_FIXED), DMA_INC),
              DMA_TIMING_IMMD))

CopyControl ==
    U16(BitOr(BitOr(BitOr(BitOr(DMA_ENABLE, DMA_32BIT), DMA_SRC_INC), DMA_INC),
              DMA_TIMING_IMMD))

\* A call dma3Fill32(destAddr, value, wordCount)
Fill32(dst, value, count) == [NoArgs EXCEPT !.op = "fill", !.dst = dst,
                                            !.value = value, !.count = count]

\* A call dma3Copy32(srcAddr, destAddr, wordCount)
Copy32(src, dst, count) == [NoArgs EXCEPT !.op = "copy", !.src = src,
                                          !.dst = dst, !.count = count]

\* Entry of dma3Fill32 / dma3Copy32: return at once if wordCount <= 0.
DmaBegin(c, d) ==
    /\ dargs' = [dargs EXCEPT ![c] = d]
    /\ dpc' = [dpc EXCEPT ![c] = IF d.count <= 0 THEN "idle" ELSE "wait1"]

\* A context calls one of the two primitives.
DmaCall(c, d) ==
    /\ dpc[c] = "idle"
    /\ HasCPU(c)
    /\ DmaBegin(c, d)
    /\ UNCHANGED <<packageVars, bufferVars, vram, DMA3SAD, DMA3DAD, DMA3CNT_L, DMA3CNT_H,
                   active, fast>>

\* One more turn of either polling loop: the enable bit still reads as set.
DmaSpin(c) ==
    /\ dpc[c] \in {"wait1", "wait2"}
    /\ HasCPU(c)
    /\ GetDMAStatus
    /\ UNCHANGED vars

\* A primitive that programs the channel without the first polling loop.
DmaReady_NoWait(c) ==
    /\ dpc[c] = "wait1"
    /\ HasCPU(c)
    /\ dpc' = [dpc EXCEPT ![c] = "sad"]
    /\ UNCHANGED <<packageVars, bufferVars, vram, DMA3SAD, DMA3DAD, DMA3CNT_L, DMA3CNT_H,
                   dargs, active, fast>>

\* The first polling loop ends.
DmaReady(c) ==
    /\ dpc[c] = "wait1"
    /\ HasCPU(c)
    /\ ~GetDMAStatus
    /\ dpc' = [dpc EXCEPT ![c] = "sad"]
    /\ UNCHANGED <<packageVars, bufferVars, vram, DMA3SAD, DMA3DAD, DMA3CNT_L, DMA3CNT_H,
                   dargs, active, fast>>

Logged(c, reg) == [dargs EXCEPT ![c].log = Append(@, reg)]

DmaSetSAD(c) ==
    /\ dpc[c] = "sad"
    /\ HasCPU(c)
    /\ DMA3SAD' = IF dargs[c].op = "fill" THEN ValueAddr(c) ELSE dargs[c].src
    /\ dargs' = Logged(c, "SAD")
    /\ dpc' = [dpc EXCEPT ![c] = "dad"]
    /\ UNCHANGED <<packageVars, bufferVars, vram, DMA3DAD, DMA3CNT_L, DMA3CNT_H, active, fast>>

DmaSetDAD(c) ==
    /\ dpc[c] = "dad"
    /\ HasCPU(c)
    /\ DMA3DAD' = dargs[c].dst
    /\ dargs' = Logged(c, "DAD")
    /\ dpc' = [dpc EXCEPT ![c] = "cnt"]
    /\ UNCHANGED <<packageVars, bufferVars, vram, DMA3SAD, DMA3CNT_L, DMA3CNT_H, active, fast>>

DmaSetCNT_L(c) ==
    /\ dpc[c] = "cnt"
    /\ HasCPU(c)
    /\ DMA3CNT_L' = U16(dargs[c].count)
    /\ dargs' = Logged(c, "CNT_L")
    /\ dpc' = [dpc EXCEPT ![c] = "ctl"]
    /\ UNCHANGED <<packageVars, bufferVars, vram, DMA3SAD, DMA3DAD, DMA3CNT_H, active, fast>>

\* The control word is written; a channel that was idle latches the transfer
\* its registers describe.
DmaSetCNT_H(c) ==
    /\ dpc[c] = "ctl"
    /\ HasCPU(c)
    /\ DMA3CNT_H' = IF dargs[c].op = "fill" THEN FillControl ELSE CopyControl
    /\ active' = IF GetDMAStatus THEN active
                 ELSE [src |-> DMA3SAD, dst |-> DMA3DAD, count |-> DMA3CNT_L,
                       on |-> TRUE, by |-> c]
    /\ dargs' = Logged(c, "CNT_H")
    /\ dpc' = [dpc EXCEPT ![c] = "wait2"]
    /\ UNCHANGED <<packageVars, bufferVars, vram, DMA3SAD, DMA3DAD, DMA3CNT_L, fast>>

\* A primitive whose second polling loop waits for the wrong polarity.
DmaDone_WrongPolarity(c) ==
    /\ dpc[c] = "wait2"
    /\ HasCPU(c)
    /\ GetDMAStatus
    /\ dpc' = [dpc EXCEPT ![c] = "idle"]
    /\ UNCHANGED <<packageVars, bufferVars, vram, DMA3SAD, DMA3DAD, DMA3CNT_L, DMA3CNT_H,
                   dargs, active, fast>>

\* The second polling loop ends and the primitive returns.
DmaDone(c) ==
    /\ dpc[c] = "wait2"
    /\ HasCPU(c)
    /\ ~GetDMAStatus
    /\ dpc' = [dpc EXCEPT ![c] = "idle"]
    /\ UNCHANGED <<packageVars, bufferVars, vram, DMA3SAD, DMA3DAD, DMA3CNT_L, DMA3CNT_H,
                   dargs, active, fast>>

\* The source-mode field of a control word, read with the field positions the
\* flag constants declare (source mode at bits 9-10, next to DMA_SRC_FIXED) and
\* with the positions of the device's register (source mode at bits 7-8).
SourceModes(control) == {(control \div 2^9) % 4, (control \div 2^7) % 4}

\* The halfword a transfer reads at addr: the caller's fill value when addr is
\* inside the stack cell that holds it, a frame-memory cell otherwise; unknown
\* is what the transfer finds in a stack cell next to the fill value.
SourceHalf(mem, addr, unknown) ==
    IF \E c \in Contexts : addr = ValueAddr(c)
    THEN dargs[CHOOSE c \in Contexts : addr = ValueAddr(c)].value.lo
    ELSE IF \E c \in Contexts : addr = ValueAddr(c) + 2
    THEN dargs[CHOOSE c \in Contexts : addr = ValueAddr(c) + 2].value.hi
    ELSE IF addr \in DOMAIN mem THEN mem[addr]
    ELSE unknown

\* Frame memory after the channel has moved t.count 32-bit words to t.dst,
\* t.dst + 4, ...: with a fixed source every word is the one at t.src, with an
\* incrementing source the k-th word is the one at t.src + 4k.
Transfer(mem, t, mode, unknown) ==
    IF DOMAIN mem = {} THEN mem
    ELSE [a \in DOMAIN mem |->
            IF a >= t.dst /\ a < t.dst + 4 * t.count
            THEN SourceHalf(mem, IF mode = 2 THEN t.src + ((a - t.dst) % 4)
                                 ELSE t.src + (a - t.dst), unknown)
            ELSE mem[a]]

\* The channel finishes the transfer it latched and clears its enable bit.
HwComplete ==
    /\ GetDMAStatus
    /\ \E mode \in SourceModes(DMA3CNT_H), unknown \in {0, 65535} :
          vram' = Transfer(vram, active, mode, unknown)
    /\ DMA3CNT_H' = DMA3CNT_H - DMA_ENABLE
    /\ active' = NoTransfer
    /\ UNCHANGED <<packageVars, bufferVars, DMA3SAD, DMA3DAD, DMA3CNT_L, dpc, dargs, fast>>

\* The transfers the two contexts ask for: a fill, a copy, and an empty one.
SampleTransfers ==
    {Fill32(FRAME0_ADDR, Word32(5, 5), 4),
     Copy32(FRAME0_ADDR, FRAME1_ADDR, 2),
     Fill32(FRAME1_ADDR, Word32(0, 0), 0)}

(***************************************************************************)
(* FastFill / FastClear / FastCopy: the steps one call goes through        *)
(***************************************************************************)
\* An ordinary halfword write through a volatile.Register16 pointer: Set(value)
Store16Step(addr, value) == [NoArgs EXCEPT !.op = "store16", !.dst = addr,
                                           !.value = Word32(value, 0)]

\* A read-modify-write of the low byte of the halfword at addr.
StoreLowByteStep(addr, value) == [NoArgs EXCEPT !.op = "store8", !.dst = addr,
                                                !.value = Word32(value, 0)]

\* The software paths: bb.FillRect(x, y, width, height, color), bb.CopyFrom(src, ...)
FillRectStep(x, y, width, height, color) ==
    [NoArgs EXCEPT !.op = "FillRect", !.value = Word32(color, 0),
                   !.rect = [width |-> width, height |-> height, x |-> x, y |-> y]]

CopyFromStep(width, height) ==
    [NoArgs EXCEPT !.op = "CopyFrom",
                   !.rect = [width |-> width, height |-> height, x |-> 0, y |-> 0]]

\* dmaFill16's row loop, from row dy on.
RECURSIVE FillRows16(_, _, _, _, _, _, _)
FillRows16(bb, x, y, width, height, color, dy) ==
    IF dy >= height THEN <<>>
    ELSE LET rowStart  == bb.base + ((y + dy) * bb.width * 2 + x * 2)
             wordCount == width \div 2
             color32   == Word32(color, color)
         IN (IF wordCount > 0 THEN <<Fill32(rowStart, color32, wordCount)>>
             ELSE <<>>)
            \o (IF width % 2 = 1
                THEN <<Store16Step(rowStart + wordCount * 4, color)>> ELSE <<>>)
            \o FillRows16(bb, x, y, width, height, color, dy + 1)

dmaFill16(bb, x, y, width, height, color) ==
    IF x = 0 /\ width = bb.width
    THEN LET startAddr == bb.base + y * bb.width * 2
             wordCount == (width * height) \div 2
             color32   == Word32(color, color)
             remaining == (width * height) % 2
         IN (IF wordCount > 0 THEN <<Fill32(startAddr, color32, wordCount)>>
             ELSE <<>>)
            \o (IF remaining > 0
                THEN <<Store16Step(startAddr + wordCount * 4, color)>> ELSE <<>>)
    ELSE FillRows16(bb, x, y, width, height, color, 0)

\* dmaFill8's remainder loop: for i := 0; i < remaining; i += 2
RECURSIVE FillRest8(_, _, _, _)
FillRest8(addr, color, remaining, i) ==
    IF i >= remaining THEN <<>>
    ELSE (IF i + 1 < remaining
          THEN <<Store16Step(addr + i, BitOr(color, color * 256))>>
          ELSE <<StoreLowByteStep(addr + (i - (i % 2)), color)>>)
         \o FillRest8(addr, color, remaining, i + 2)

dmaFill8(bb, x, y, width, height, color) ==
    IF x = 0 /\ width = bb.width
    THEN LET startAddr == bb.base + y * bb.width
             wordCount == (width * height) \div 4
             color32   == Word32(BitOr(color, color * 256),
                                 BitOr(color, color * 256))
             remaining == (width * height) % 4
         IN (IF wordCount > 0 THEN <<Fill32(startAddr, color32, wordCount)>>
             ELSE <<>>)
            \o FillRest8(startAddr + wordCount * 4, color, remaining, 0)
    ELSE <<FillRectStep(x, y, width, height, color)>>

dmaFill(bb, x, y, width, height, color) ==
    IF bb.bpp = 16 THEN dmaFill16(bb, x, y, width, height, color)
    ELSE dmaFill8(bb, x, y, width, height, color % 256)

\* FastFill with the comparison totalPixels > 64 in place of totalPixels >= 64.
FastFill_Above64(bb, x, y, width, height, color) ==
    LET r == ClampRect(bb, x, y, width, height) IN
    IF r.width <= 0 \/ r.height <= 0 THEN <<>>
    ELSE IF r.width * r.height > 64
         THEN dmaFill(bb, r.x, r.y, r.width, r.height, color)
         ELSE <<FillRectStep(r.x, r.y, r.width, r.height, color)>>

FastFill(bb, x, y, width, height, color) ==
    LET r == ClampRect(bb, x, y, width, height) IN
    IF r.width <= 0 \/ r.height <= 0 THEN <<>>
    ELSE IF r.width * r.height >= 64
         THEN dmaFill(bb, r.x, r.y, r.width, r.height, color)
         ELSE <<FillRectStep(r.x, r.y, r.width, r.height, color)>>

FastClear(bb, color) == FastFill(bb, 0, 0, bb.width, bb.height, color)

dmaCopy(bb, src, srcX, srcY, dstX, dstY, width, height) ==
    IF /\ srcX = 0 /\ srcY = 0 /\ dstX = 0 /\ dstY = 0
       /\ width = bb.width /\ height = bb.height
       /\ width = src.width /\ height = src.height
    THEN LET wordCount == IF bb.bpp = 16 THEN (width * height) \div 2
                          ELSE (width * height) \div 4
         IN IF wordCount > 0 THEN <<Copy32(src.base, bb.base, wordCount)>>
            ELSE <<>>
    ELSE <<CopyFromStep(width, height)>>

FastCopy(bb, src) ==
    IF src.bpp # bb.bpp THEN <<CopyFromStep(src.width, src.height)>>
    ELSE IF bb.width * bb.height >= 128
         THEN dmaCopy(bb, src, 0, 0, 0, 0, bb.width, bb.height)
         ELSE <<CopyFromStep(src.width, src.height)>>

\* What a step of the software path does to frame memory.
CpuStep(bb, src, mem, st) ==
    IF st.op = "store16" THEN Store16(mem, st.dst, st.value.lo)
    ELSE IF st.op = "store8"
         THEN Store16(mem, st.dst,
                      BitOr(BitAnd(Load16(mem, st.dst), 65280), st.value.lo))
    ELSE IF st.op = "FillRect"
         THEN FillRect(bb, mem, st.rect.x, st.rect.y, st.rect.width,
                       st.rect.height, st.value.lo)
    ELSE CopyFrom(bb, src, mem, 0, 0, 0, 0, st.rect.width, st.rect.height)

\* The application flow is between two calls.
MainIdle == pc = "idle" /\ fast.op = "none" /\ dpc["main"] = "idle" /\ HasCPU("main")

Entered(name, bb, src, rect, color, steps) ==
    /\ MainIdle
    /\ fast' = [bb |-> bb, color |-> color, src |-> src, op |-> name,
                rect |-> rect, steps |-> steps, taken |-> <<>>]
    /\ call' = name
    /\ trace' = <<>>
    /\ entry' = [NoEntry EXCEPT !.mem = vram]
    /\ hist' = <<>>
    /\ lastPlot' = NoPlot
    /\ UNCHANGED <<packageVars, ret, obj, vm, frontBuffer, backBuffer, displayBuffer, vsyncEnabled,
                   swapRequested, wasEnabled, DISPCNT, pc, requests, vram,
                   DMA3SAD, DMA3DAD, DMA3CNT_L, DMA3CNT_H, dpc, dargs, active>>

CallFastFill(bb, x, y, width, height, color) ==
    Entered("FastFill", bb, NoBuffer,
            [width |-> width, height |-> height, x |-> x, y |-> y], color,
            FastFill(bb, x, y, width, height, color))

CallFastClear(bb, color) ==
    Entered("FastClear", bb, NoBuffer,
            [width |-> bb.width, height |-> bb.height, x |-> 0, y |-> 0], color,
            FastClear(bb, color))

CallFastCopy(bb, src) ==
    Entered("FastCopy", bb, src, NoRect, 0, FastCopy(bb, src))

\* The call reaches its next dma3Fill32 / dma3Copy32.
FastIssue ==
    /\ fast.op \notin {"none", "WaitForDMA"}
    /\ fast.steps # <<>>
    /\ Head(fast.steps).op \in {"fill", "copy"}
    /\ dpc["main"] = "idle"
    /\ HasCPU("main")
    /\ DmaBegin("main", Head(fast.steps))
    /\ fast' = [fast EXCEPT !.steps = Tail(@), !.taken = Append(@, Head(fast.steps))]
    /\ UNCHANGED <<packageVars, bufferVars, vram, DMA3SAD, DMA3DAD, DMA3CNT_L, DMA3CNT_H,
                   active>>

\* The call does its next piece of software drawing.
FastCpu ==
    /\ fast.op \notin {"none", "WaitForDMA"}
    /\ fast.steps # <<>>
    /\ Head(fast.steps).op \notin {"fill", "copy"}
    /\ dpc["main"] = "idle"
    /\ HasCPU("main")
    /\ vram' = CpuStep(fast.bb, fast.src, vram, Head(fast.steps))
    /\ fast' = [fast EXCEPT !.steps = Tail(@), !.taken = Append(@, Head(fast.steps))]
    /\ UNCHANGED <<packageVars, bufferVars, DMA3SAD, DMA3DAD, DMA3CNT_L, DMA3CNT_H, dpc, dargs,
                   active>>

FastReturn ==
    /\ fast.op \notin {"none", "WaitForDMA"}
    /\ fast.steps = <<>>
    /\ dpc["main"] = "idle"
    /\ HasCPU("main")
    /\ fast' = NoFast
    /\ UNCHANGED <<packageVars, bufferVars, vram, DMA3SAD, DMA3DAD, DMA3CNT_L, DMA3CNT_H, dpc,
                   dargs, active>>

\* WaitForDMA(): for GetDMAStatus() { }
CallWaitForDMA == Entered("WaitForDMA", NoBuffer, NoBuffer, NoRect, 0, <<>>)

WaitForDMASpin ==
    /\ fast.op = "WaitForDMA"
    /\ GetDMAStatus
    /\ UNCHANGED vars

WaitForDMAReturn ==
    /\ fast.op = "WaitForDMA"
    /\ ~GetDMAStatus
    /\ fast' = NoFast
    /\ UNCHANGED <<packageVars, bufferVars, vram, DMA3SAD, DMA3DAD, DMA3CNT_L, DMA3CNT_H, dpc,
                   dargs, active>>

\* The buffers and rectangles the application flow works on.
SampleBuffers ==
    {[width |-> 16, height |-> 8, bpp |-> 16, base |-> FRAME0_ADDR],
     [width |-> 16, height |-> 8, bpp |-> 8, base |-> FRAME0_ADDR],
     [width |-> 9, height |-> 9, bpp |-> 16, base |-> FRAME0_ADDR],
     [width |-> 8, height |-> 8, bpp |-> 8, base |-> FRAME0_ADDR]}

SampleSources ==
    {[width |-> 16, height |-> 8, bpp |-> 16, base |-> FRAME1_ADDR],
     [width |-> 16, height |-> 8, bpp |-> 8, base |-> FRAME1_ADDR],
     [width |-> 8, height |-> 8, bpp |-> 8, base |-> FRAME1_ADDR]}

SampleRects ==
    {[width |-> 16, height |-> 8, x |-> 0, y |-> 0],
     [width |-> 15, height |-> 8, x |-> 1, y |-> 0],
     [width |-> 17, height |-> 9, x |-> 0 - 1, y |-> 0 - 1],
     [width |-> 4, height |-> 4, x |-> 0, y |-> 0],
     [width |-> 4, height |-> 4, x |-> 20, y |-> 0]}

Init ==
    /\ InitBuffers({"double", "triple"})
    /\ vram = NoMemory
    /\ InitChannelIdle
    /\ InitPackages

Next ==
    \/ \E mode \in Modes : NewDoubleBuffer(mode)
    \/ \E api \in {"Swap", "Present"} : Swap(api)
    \/ SwapWithoutVSync
    \/ VSync
    \/ SwapFlip
    \/ SwapViews
    \/ SwapWrite
    \/ SwapRestore
    \/ \E enabled \in BOOLEAN : SetVSync(enabled)
    \/ \E mode \in Modes : ManagerSetMode(mode)
    \/ ManagerSwapBuffers
    \/ \E mode \in Modes : NewTripleBuffer(mode)
    \/ RequestSwap
    \/ Update
    \/ UpdateFlip
    \/ UpdateViews
    \/ UpdateWrite
    \/ \E enabled \in BOOLEAN : TripleSetVSync(enabled)

Spec == Init /\ [][Next]_vars

\* A DoubleBuffer whose pages hold a pattern, drawn on and swapped.
InitFrame ==
    /\ InitBuffers({"double"})
    /\ \E fill \in {0, 2313} : vram = [a \in Window(vm) |-> fill]
    /\ InitChannelIdle
    /\ InitPackages

NextFrame ==
    \/ \E p \in SamplePixels, color \in SampleColors : PlotBack(p[1], p[2], color)
    \/ \E api \in {"Swap", "Present"} : Swap(api)
    \/ SwapWithoutVSync
    \/ VSync
    \/ SwapFlip
    \/ SwapViews
    \/ SwapWrite
    \/ SwapRestore
    \/ \E enabled \in BOOLEAN : SetVSync(enabled)

SpecFrame == InitFrame /\ [][NextFrame]_vars

\* The application flow and an interrupt handler driving the channel.
InitChannel ==
    /\ InitBuffers({"double"})
    /\ vram = NoMemory
    /\ InitChannelIdle
    /\ InitPackages

NextChannel ==
    \/ \E c \in Contexts, d \in SampleTransfers : DmaCall(c, d)
    \/ \E c \in Contexts : DmaSpin(c)
    \/ \E c \in Contexts : DmaReady(c)
    \/ \E c \in Contexts : DmaSetSAD(c)
    \/ \E c \in Contexts : DmaSetDAD(c)
    \/ \E c \in Contexts : DmaSetCNT_L(c)
    \/ \E c \in Contexts : DmaSetCNT_H(c)
    \/ \E c \in Contexts : DmaDone(c)
    \/ HwComplete

SpecChannel == InitChannel /\ [][NextChannel]_vars

\* The application flow alone: swaps, accelerated drawing, the display and the
\* channel; at the start the channel may still run a transfer enabled earlier.
InitLive ==
    /\ InitBuffers({"double"})
    /\ vram = NoMemory
    /\ DMA3SAD = 0
    /\ DMA3DAD = 0
    /\ DMA3CNT_L = 0
    /\ \/ DMA3CNT_H = 0 /\ active = NoTransfer
       \/ DMA3CNT_H = CopyControl /\ active = [NoTransfer EXCEPT !.on = TRUE]
    /\ dpc = [c \in Contexts |-> "idle"]
    /\ dargs = [c \in Contexts |-> NoArgs]
    /\ fast = NoFast
    /\ InitPackages

\* The steps the processor takes inside a call.
ProgramStep ==
    \/ SwapFlip
    \/ SwapViews
    \/ SwapWrite
    \/ SwapRestore
    \/ FastIssue
    \/ FastCpu
    \/ FastReturn
    \/ WaitForDMAReturn
    \/ DmaReady("main")
    \/ DmaSetSAD("main")
    \/ DmaSetDAD("main")
    \/ DmaSetCNT_L("main")
    \/ DmaSetCNT_H("main")
    \/ DmaDone("main")

NextLive ==
    \/ \E api \in {"Swap", "Present"} : Swap(api)
    \/ SwapWithoutVSync
    \/ VSync
    \/ SwapFlip
    \/ SwapViews
    \/ SwapWrite
    \/ SwapRestore
    \/ \E bb \in SampleBuffers, r \in SampleRects, color \in SampleColors :
          CallFastFill(bb, r.x, r.y, r.width, r.height, color)
    \/ \E bb \in SampleBuffers, color \in SampleColors : CallFastClear(bb, color)
    \/ \E bb \in SampleBuffers, src \in SampleSources : CallFastCopy(bb, src)
    \/ CallWaitForDMA
    \/ FastIssue
    \/ FastCpu
    \/ FastReturn
    \/ WaitForDMASpin
    \/ WaitForDMAReturn
    \/ DmaSpin("main")
    \/ DmaReady("main")
    \/ DmaSetSAD("main")
    \/ DmaSetDAD("main")
    \/ DmaSetCNT_L("main")
    \/ DmaSetCNT_H("main")
    \/ DmaDone("main")
    \/ HwComplete

\* The processor keeps executing, the display keeps reaching vertical blank and
\* the channel finishes every transfer it has started.
SpecLive ==
    /\ InitLive
    /\ [][NextLive]_vars
    /\ WF_vars(ProgramStep)
    /\ WF_vars(VSync)
    /\ WF_vars(HwComplete)

(***************************************************************************)
(* One accelerated call over frame memory that holds a pattern              *)
(***************************************************************************)
\* NewBitmapBuffer(base, width, height, bpp)
NewBitmapBuffer(base, width, height, bpp) ==
    [width |-> width, height |-> height, bpp |-> bpp, base |-> base]

\* Bound: the bytes of each page the specification keeps track of.
AccelBytes == 258

\* The tracked cells: the first AccelBytes bytes of both pages.
AccelWindow ==
    {a \in FRAME0_ADDR..(FRAME0_ADDR + AccelBytes - 1) : a % 2 = 0}
    \cup {a \in FRAME1_ADDR..(FRAME1_ADDR + AccelBytes - 1) : a % 2 = 0}

\* A pattern in which every tracked cell holds a different value.
Pattern(a) == (((a - VRAM_BASE) \div 2) * 259 + 4113) % 65536

\* The destination buffers a call works on: at FRAME0_ADDR, in both depths.
AccelBuffers ==
    {NewBitmapBuffer(FRAME0_ADDR, 32, 4, 16),
     NewBitmapBuffer(FRAME0_ADDR, 32, 4, 8),
     NewBitmapBuffer(FRAME0_ADDR, 27, 3, 16),
     NewBitmapBuffer(FRAME0_ADDR, 27, 3, 8),
     NewBitmapBuffer(FRAME0_ADDR, 10, 7, 8),
     NewBitmapBuffer(FRAME0_ADDR, 67, 1, 8),
     NewBitmapBuffer(FRAME0_ADDR, 2, 64, 16),
     NewBitmapBuffer(FRAME0_ADDR, 8, 8, 8)}

\* The copies, as <<destination, source>>: the source at FRAME1_ADDR; equal
\* geometry of 128 pixels in both depths, of 129 pixels, of 64 pixels, and
\* sources of another depth or another size.
AccelCopies ==
    {<<NewBitmapBuffer(FRAME0_ADDR, 32, 4, 16), NewBitmapBuffer(FRAME1_ADDR, 32, 4, 16)>>,
     <<NewBitmapBuffer(FRAME0_ADDR, 32, 4, 8), NewBitmapBuffer(FRAME1_ADDR, 32, 4, 8)>>,
     <<NewBitmapBuffer(FRAME0_ADDR, 43, 3, 16), NewBitmapBuffer(FRAME1_ADDR, 43, 3, 16)>>,
     <<NewBitmapBuffer(FRAME0_ADDR, 8, 8, 8), NewBitmapBuffer(FRAME1_ADDR, 8, 8, 8)>>,
     <<NewBitmapBuffer(FRAME0_ADDR, 9, 9, 16), NewBitmapBuffer(FRAME1_ADDR, 9, 9, 16)>>,
     <<NewBitmapBuffer(FRAME0_ADDR, 32, 4, 16), NewBitmapBuffer(FRAME1_ADDR, 32, 4, 8)>>,
     <<NewBitmapBuffer(FRAME0_ADDR, 32, 4, 8), NewBitmapBuffer(FRAME1_ADDR, 32, 4, 16)>>,
     <<NewBitmapBuffer(FRAME0_ADDR, 32, 4, 16), NewBitmapBuffer(FRAME1_ADDR, 8, 8, 16)>>,
     <<NewBitmapBuffer(FRAME0_ADDR, 8, 8, 8), NewBitmapBuffer(FRAME1_ADDR, 32, 4, 8)>>}

\* The rectangles of a fill, as <<x, y, width, height>>: full-width and narrower,
\* below, at and above 64 pixels, odd x and odd width, one pixel wide, reaching
\* over every edge, empty and outside the buffer.
AccelRects ==
    {<<0, 0, 32, 4>>, <<0, 0, 32, 2>>, <<0, 1, 32, 2>>, <<0, 0, 32, 1>>,
     <<1, 0, 31, 3>>, <<2, 0, 16, 4>>, <<3, 1, 21, 3>>, <<4, 1, 9, 7>>,
     <<0 - 1, 0 - 1, 33, 5>>, <<0 - 2, 0 - 3, 50, 70>>, <<40, 0, 4, 4>>,
     <<4, 2, 0, 3>>, <<4, 2, 0 - 2, 3>>, <<1, 0, 1, 64>>, <<0, 0, 2, 64>>,
     <<0, 0, 27, 3>>, <<0, 0, 10, 7>>, <<0, 0, 43, 3>>, <<0, 0, 8, 8>>}

InitAccel ==
    /\ InitBuffers({"double"})
    /\ vram = [a \in AccelWindow |-> Pattern(a)]
    /\ InitChannelIdle
    /\ InitPackages

\* The program makes one accelerated call.
NextAccel ==
    \/ \E bb \in AccelBuffers, r \in AccelRects, color \in SampleColors :
          call = "New" /\ CallFastFill(bb, r[1], r[2], r[3], r[4], color)
    \/ \E bb \in AccelBuffers, color \in SampleColors :
          call = "New" /\ CallFastClear(bb, color)
    \/ \E p \in AccelCopies : call = "New" /\ CallFastCopy(p[1], p[2])
    \/ FastIssue
    \/ FastCpu
    \/ FastReturn
    \/ DmaSpin("main")
    \/ DmaReady("main")
    \/ DmaSetSAD("main")
    \/ DmaSetDAD("main")
    \/ DmaSetCNT_L("main")
    \/ DmaSetCNT_H("main")
    \/ DmaDone("main")
    \/ HwComplete

SpecAccel == InitAccel /\ [][NextAccel]_vars

(***************************************************************************)
(* MemoryRegion (lib/memory/color.go) and the mode 4 pixel helpers         *)
(* (lib/memory/vram.go). A uintptr is 32 bits wide and kept as its two     *)
(* halfwords, so that offset + 1 and offset + 3 wrap as they do in the     *)
(* code.                                                                   *)
(***************************************************************************)
\* uintptr(n) for 0 <= n < 2^31
Uintptr(n) == Word32(n % 65536, n \div 65536)

\* a + b in uintptr arithmetic
Add32(a, b) ==
    Word32((a.lo + b.lo) % 65536, (a.hi + b.hi + (a.lo + b.lo) \div 65536) % 65536)

\* a < b on uintptr values
Less32(a, b) == a.hi < b.hi \/ (a.hi = b.hi /\ a.lo < b.lo)

NewMemoryRegion(base, size) == [base |-> Uintptr(base), size |-> Uintptr(size)]

\* MemoryRegion.InBounds(offset)
MemoryRegionInBounds(r, offset) == Less32(offset, r.size)

\* r.base + offset, the address the pointer of an access is made from
Address(r, offset) ==
    LET a == Add32(r.base, offset) IN a.hi * 65536 + a.lo

\* The addresses at which the bus may carry out an access of the given width
\* made at addr: as it stands, or forced down to a multiple of the width.
BusAddresses(addr, width) == {addr, addr - (addr % width)}

\* The byte at address a, and memory with that byte replaced.
LoadByte(mem, a) ==
    IF a % 2 = 0 THEN Load16(mem, a) % 256 ELSE Load16(mem, a - 1) \div 256

StoreByte(mem, a, b) ==
    IF a % 2 = 0 THEN Store16(mem, a, (Load16(mem, a) \div 256) * 256 + b)
    ELSE Store16(mem, a - 1, (Load16(mem, a - 1) % 256) + 256 * b)

\* Read16(offset), the bus carrying the access out at address at
Read16(r, mem, offset, at) ==
    IF ~MemoryRegionInBounds(r, Add32(offset, Uintptr(1))) THEN 0
    ELSE LoadByte(mem, at) + 256 * LoadByte(mem, at + 1)

\* Write16(offset, value)
Write16(r, mem, offset, value, at) ==
    IF ~MemoryRegionInBounds(r, Add32(offset, Uintptr(1))) THEN mem
    ELSE StoreByte(StoreByte(mem, at, value % 256), at + 1, value \div 256)

\* Read32(offset), as the halfwords of the uint32 it returns
Read32(r, mem, offset, at) ==
    IF ~MemoryRegionInBounds(r, Add32(offset, Uintptr(3))) THEN Word32(0, 0)
    ELSE Word32(LoadByte(mem, at) + 256 * LoadByte(mem, at + 1),
                LoadByte(mem, at + 2) + 256 * LoadByte(mem, at + 3))

\* Write32(offset, value), value given as its halfwords
Write32(r, mem, offset, value, at) ==
    IF ~MemoryRegionInBounds(r, Add32(offset, Uintptr(3))) THEN mem
    ELSE StoreByte(StoreByte(StoreByte(StoreByte(mem, at, value.lo % 256),
                                       at + 1, value.lo \div 256),
                             at + 2, value.hi % 256),
                   at + 3, value.hi \div 256)

\* Clear(): for offset := 0; offset < r.size; offset += 4, from offset on
RECURSIVE ClearFrom(_, _, _)
ClearFrom(r, mem, offset) ==
    IF ~Less32(offset, r.size) THEN mem
    ELSE ClearFrom(r,
                   IF Less32(Add32(offset, Uintptr(3)), r.size)
                   THEN Write32(r, mem, offset, Word32(0, 0), Address(r, offset))
                   ELSE Write16(r, mem, offset, 0, Address(r, offset)),
                   Add32(offset, Uintptr(4)))

MemoryRegionClear(r, mem) == ClearFrom(r, mem, Uintptr(0))

\* Fill16(value): for offset := 0; offset < r.size; offset += 2, from offset on
RECURSIVE Fill16From(_, _, _, _)
Fill16From(r, mem, value, offset) ==
    IF ~Less32(offset, r.size) THEN mem
    ELSE Fill16From(r, Write16(r, mem, offset, value, Address(r, offset)), value,
                    Add32(offset, Uintptr(2)))

Fill16(r, mem, value) == Fill16From(r, mem, value, Uintptr(0))

\* VRAMRegions.Mode4
Mode4Region == NewMemoryRegion(VRAM_BASE, SCREEN_WIDTH * SCREEN_HEIGHT)

\* SetPixelMode4(x, y, paletteIndex)
SetPixelMode4(mem, x, y, paletteIndex) ==
    IF x >= 0 /\ x < SCREEN_WIDTH /\ y >= 0 /\ y < SCREEN_HEIGHT
    THEN LET offset  == y * SCREEN_WIDTH + x
             word    == Uintptr(offset - (offset % 2))
             at      == Address(Mode4Region, word)
             current == Read16(Mode4Region, mem, word, at)
         IN IF offset % 2 = 0
            THEN Write16(Mode4Region, mem, word,
                         BitOr(BitAnd(current, 65280), paletteIndex), at)
            ELSE Write16(Mode4Region, mem, word,
                         BitOr(BitAnd(current, 255), paletteIndex * 256), at)
    ELSE mem

\* GetPixelMode4(x, y)
GetPixelMode4(mem, x, y) ==
    IF x >= 0 /\ x < SCREEN_WIDTH /\ y >= 0 /\ y < SCREEN_HEIGHT
    THEN LET offset == y * SCREEN_WIDTH + x
             word   == Uintptr(offset - (offset % 2))
             value  == Read16(Mode4Region, mem, word, Address(Mode4Region, word))
         IN IF offset % 2 = 0 THEN BitAnd(value, 255) ELSE (value \div 256) % 256
    ELSE 0

(***************************************************************************)
(* Drawing calls on a buffer of the manager or on a small buffer           *)
(***************************************************************************)
\* Clear(color)
Clear(bb, mem, color) == FillRect(bb, mem, 0, 0, bb.width, bb.height, color)

\* DrawLine's loop, entered at (x1, y1) with the running error err.
RECURSIVE DrawLineLoop(_, _, _, _, _, _, _, _, _, _, _, _)
DrawLineLoop(bb, mem, x1, y1, x2, y2, dx, dy, sx, sy, err, color) ==
    LET plotted == IF InBounds(bb, x1, y1) THEN PlotPixelFast(bb, mem, x1, y1, color)
                   ELSE mem
    IN IF (x1 = x2 /\ y1 = y2) \/ DOMAIN plotted = {} THEN plotted
       ELSE LET e2   == 2 * err
                err1 == IF e2 > 0 - dy THEN err - dy ELSE err
                xn   == IF e2 > 0 - dy THEN x1 + sx ELSE x1
                err2 == IF e2 < dx THEN err1 + dx ELSE err1
                yn   == IF e2 < dx THEN y1 + sy ELSE y1
            IN DrawLineLoop(bb, plotted, xn, yn, x2, y2, dx, dy, sx, sy, err2, color)

DrawLine(bb, mem, x1, y1, x2, y2, color) ==
    LET dx == IF x2 - x1 < 0 THEN x1 - x2 ELSE x2 - x1
        dy == IF y2 - y1 < 0 THEN y1 - y2 ELSE y2 - y1
        sx == IF x1 < x2 THEN 1 ELSE 0 - 1
        sy == IF y1 < y2 THEN 1 ELSE 0 - 1
    IN DrawLineLoop(bb, mem, x1, y1, x2, y2, dx, dy, sx, sy, dx - dy, color)

\* if bb.InBounds(x, y) { bb.PlotPixelFast(x, y, color) }
PlotIfInBounds(bb, mem, x, y, color) ==
    IF InBounds(bb, x, y) THEN PlotPixelFast(bb, mem, x, y, color) ELSE mem

\* The eight plots of one turn of DrawCircle's loop, in the code's order.
PlotOctants(bb, mem, cx, cy, x, y, color) ==
    LET m1 == PlotIfInBounds(bb, mem, cx + x, cy + y, color)
        m2 == PlotIfInBounds(bb, m1, cx + y, cy + x, color)
        m3 == PlotIfInBounds(bb, m2, cx - y, cy + x, color)
        m4 == PlotIfInBounds(bb, m3, cx - x, cy + y, color)
        m5 == PlotIfInBounds(bb, m4, cx - x, cy - y, color)
        m6 == PlotIfInBounds(bb, m5, cx - y, cy - x, color)
        m7 == PlotIfInBounds(bb, m6, cx + y, cy - x, color)
    IN PlotIfInBounds(bb, m7, cx + x, cy - y, color)

\* DrawCircle's loop: for x >= y
RECURSIVE DrawCircleLoop(_, _, _, _, _, _, _, _)
DrawCircleLoop(bb, mem, cx, cy, x, y, err, color) ==
    IF x < y \/ DOMAIN mem = {} THEN mem
    ELSE LET plotted == PlotOctants(bb, mem, cx, cy, x, y, color)
             y1   == IF err <= 0 THEN y + 1 ELSE y
             err1 == IF err <= 0 THEN err + 2 * y1 + 1 ELSE err
             x1   == IF err1 > 0 THEN x - 1 ELSE x
             err2 == IF err1 > 0 THEN err1 - (2 * x1 + 1) ELSE err1
         IN DrawCircleLoop(bb, plotted, cx, cy, x1, y1, err2, color)

DrawCircle(bb, mem, centerX, centerY, radius, color) ==
    DrawCircleLoop(bb, mem, centerX, centerY, radius, 0, 0, color)

\* FillCircle's inner loop: for x := centerX - radius; x <= centerX+radius; x++
RECURSIVE FillCircleRow(_, _, _, _, _, _, _, _)
FillCircleRow(bb, mem, cx, cy, radius, color, y, x) ==
    IF x > cx + radius \/ DOMAIN mem = {} THEN mem
    ELSE FillCircleRow(bb,
             IF (x - cx) * (x - cx) + (y - cy) * (y - cy) <= radius * radius
             THEN PlotIfInBounds(bb, mem, x, y, color) ELSE mem,
             cx, cy, radius, color, y, x + 1)

\* FillCircle's outer loop: for y := centerY - radius; y <= centerY+radius; y++
RECURSIVE FillCircleRows(_, _, _, _, _, _, _)
FillCircleRows(bb, mem, cx, cy, radius, color, y) ==
    IF y > cy + radius THEN mem
    ELSE FillCircleRows(bb, FillCircleRow(bb, mem, cx, cy, radius, color, y,
                                          cx - radius),
                        cx, cy, radius, color, y + 1)

FillCircle(bb, mem, centerX, centerY, radius, color) ==
    FillCircleRows(bb, mem, centerX, centerY, radius, color, centerY - radius)

\* Book-keeping of a drawing call that runs from entry to return in one step:
\* the memory it leaves, what it was given and what it returned.
Drawn(name, bb, src, args, mem, value, err) ==
    /\ MainIdle
    /\ vram' = mem
    /\ call' = name
    /\ trace' = <<>>
    /\ entry' = [NoEntry EXCEPT !.mem = vram]
    /\ hist' = <<>>
    /\ ret' = [value |-> value, bb |-> bb, src |-> src, args |-> args, err |-> err]
    /\ UNCHANGED <<packageVars, obj, vm, frontBuffer, backBuffer, displayBuffer, vsyncEnabled,
                   swapRequested, wasEnabled, DISPCNT, pc, requests, dmaVars>>

\* err := bb.PlotPixel(x, y, color)
CallPlotPixel(bb, x, y, color) ==
    /\ Drawn("PlotPixel", bb, NoBuffer, <<x, y, color>>,
             PlotPixel(bb, vram, x, y, color), 0, ~PlotPixelOk(bb, x, y))
    /\ lastPlot' = IF PlotPixelOk(bb, x, y)
                   THEN [base |-> bb.base, x |-> x, y |-> y, color |-> color,
                         valid |-> TRUE, swaps |-> 0]
                   ELSE NoPlot

\* bb.PlotPixelFast(x, y, color), which callers may use for in-range pixels only
CallPlotPixelFast(bb, x, y, color) ==
    /\ InBounds(bb, x, y)
    /\ Drawn("PlotPixelFast", bb, NoBuffer, <<x, y, color>>,
             PlotPixelFast(bb, vram, x, y, color), 0, FALSE)
    /\ lastPlot' = [base |-> bb.base, x |-> x, y |-> y, color |-> color,
                    valid |-> TRUE, swaps |-> 0]

\* value, err := bb.GetPixel(x, y)
CallGetPixel(bb, x, y) ==
    /\ Drawn("GetPixel", bb, NoBuffer, <<x, y>>, vram, GetPixel(bb, vram, x, y),
             ~PlotPixelOk(bb, x, y))
    /\ UNCHANGED lastPlot

CallClear(bb, color) ==
    /\ Drawn("Clear", bb, NoBuffer, <<color>>, Clear(bb, vram, color), 0, FALSE)
    /\ lastPlot' = NoPlot

CallFillRect(bb, x, y, width, height, color) ==
    /\ Drawn("FillRect", bb, NoBuffer, <<x, y, width, height, color>>,
             FillRect(bb, vram, x, y, width, height, color), 0, FALSE)
    /\ lastPlot' = NoPlot

CallDrawLine(bb, x1, y1, x2, y2, color) ==
    /\ Drawn("DrawLine", bb, NoBuffer, <<x1, y1, x2, y2, color>>,
             DrawLine(bb, vram, x1, y1, x2, y2, color), 0, FALSE)
    /\ lastPlot' = NoPlot

CallDrawCircle(bb, centerX, centerY, radius, color) ==
    /\ Drawn("DrawCircle", bb, NoBuffer, <<centerX, centerY, radius, color>>,
             DrawCircle(bb, vram, centerX, centerY, radius, color), 0, FALSE)
    /\ lastPlot' = NoPlot

CallFillCircle(bb, centerX, centerY, radius, color) ==
    /\ Drawn("FillCircle", bb, NoBuffer, <<centerX, centerY, radius, color>>,
             FillCircle(bb, vram, centerX, centerY, radius, color), 0, FALSE)
    /\ lastPlot' = NoPlot

CallCopyFrom(bb, src, srcX, srcY, dstX, dstY, width, height) ==
    /\ Drawn("CopyFrom", bb, src, <<srcX, srcY, dstX, dstY, width, height>>,
             CopyFrom(bb, src, vram, srcX, srcY, dstX, dstY, width, height), 0,
             FALSE)
    /\ lastPlot' = NoPlot

\* The frame SetPixelMode4 and GetPixelMode4 address, as a buffer.
Mode4Frame == NewBitmapBuffer(VRAM_BASE, SCREEN_WIDTH, SCREEN_HEIGHT, 8)

\* memory.SetPixelMode4(x, y, paletteIndex)
CallSetPixelMode4(x, y, paletteIndex) ==
    /\ Drawn("SetPixelMode4", Mode4Frame, NoBuffer, <<x, y, paletteIndex>>,
             SetPixelMode4(vram, x, y, paletteIndex), 0, FALSE)
    /\ lastPlot' = NoPlot

\* value := memory.GetPixelMode4(x, y)
CallGetPixelMode4(x, y) ==
    /\ Drawn("GetPixelMode4", Mode4Frame, NoBuffer, <<x, y>>, vram,
             GetPixelMode4(vram, x, y), FALSE)
    /\ UNCHANGED lastPlot

\* Pixels of the mode 4 frame: the first two halfwords, the last one, and one
\* step outside each edge.
Mode4Pixels ==
    {<<0, 0>>, <<1, 0>>, <<2, 0>>, <<3, 0>>, <<SCREEN_WIDTH - 2, SCREEN_HEIGHT - 1>>,
     <<SCREEN_WIDTH - 1, SCREEN_HEIGHT - 1>>, <<SCREEN_WIDTH, 0>>,
     <<0, SCREEN_HEIGHT>>, <<0 - 1, 0>>}

PaletteIndices == {0, 5, 247, 255}

\* The buffers a caller draws on: the two the manager hands out, and two small
\* ones whose every pixel is tracked.
SmallBuffers ==
    {NewBitmapBuffer(FRAME0_ADDR, 6, 4, 16), NewBitmapBuffer(FRAME0_ADDR, 5, 3, 8)}

ManagerBuffers == {GetCurrentBuffer(vm), GetBackBuffer(vm)}

DrawBuffers == ManagerBuffers \cup SmallBuffers

\* The source of a copy into bb: the manager's other page, or a buffer of the
\* other depth, or a small buffer on the second page.
DrawSources(bb) ==
    IF bb \in SmallBuffers
    THEN {NewBitmapBuffer(FRAME1_ADDR, 6, 4, 16), NewBitmapBuffer(FRAME1_ADDR, 5, 3, 8)}
    ELSE {BufferAt(vm, FRAME0_ADDR + FRAME1_ADDR - bb.base),
          NewBitmapBuffer(FRAME1_ADDR, 6, 4, IF bb.bpp = 16 THEN 8 ELSE 16)}

DrawColors == {0, 5, 503, 65535}

\* Pixels at the corners, inside, and one step outside each edge.
DrawPixels(bb) ==
    {<<0, 0>>, <<1, 0>>, <<bb.width - 1, bb.height - 1>>, <<bb.width - 2, bb.height - 1>>,
     <<10, 10>>, <<11, 10>>, <<2, 1>>, <<3, 1>>,
     <<bb.width, 0>>, <<0, bb.height>>, <<0 - 1, 0>>, <<0, 0 - 1>>,
     <<bb.width, bb.height>>}

\* Rectangles as <<x, y, width, height>>: on a small buffer every combination of
\* a few offsets and sizes, on a buffer of the manager the whole buffer and
\* rectangles across each corner and edge.
DrawRects(bb) ==
    IF bb \in SmallBuffers
    THEN {<<x, y, w, h>> : x \in {0 - 2, 0, 1, 5}, y \in {0 - 1, 0, 2},
                           w \in {0 - 1, 0, 1, 3, 8}, h \in {0, 2, 5}}
    ELSE {<<0, 0, bb.width, bb.height>>, <<0 - 3, 0 - 2, 5, 4>>,
          <<bb.width - 2, bb.height - 2, 5, 5>>, <<1, 1, 2, 2>>, <<2, 1, 0, 3>>,
          <<2, 1, 0 - 2, 3>>, <<bb.width, 0, 3, 3>>, <<0 - 5, 0 - 5, 3, 3>>,
          <<0, bb.height - 1, bb.width + 4, 3>>, <<1, bb.height - 1, bb.width - 1, 1>>}

\* Rectangles one pixel in size whose x + width does not fit an int.
WideRects == {<<MaxInt, 0, 1, 1>>, <<MaxInt, 1, 1, 1>>}

\* Lines as <<x1, y1, x2, y2>>.
DrawLines(bb) ==
    {<<bb.width - 4, bb.height - 6, bb.width + 2, bb.height + 3>>, <<0 - 3, 5, 4, 0 - 2>>,
     <<bb.width - 3, bb.height - 1, bb.width + 3, bb.height - 1>>, <<2, 1, 2, 1>>,
     <<3, bb.height + 2, 1, bb.height - 3>>}

\* Circles as <<centerX, centerY, radius>>.
DrawCircles(bb) ==
    {<<0, 0, 3>>, <<bb.width - 1, bb.height - 1, 4>>, <<10, 10, 2>>, <<2, 2, 0>>,
     <<2, 2, 0 - 1>>}

\* Copies as <<srcX, srcY, dstX, dstY, width, height>>; the last one has a
\* dstX + width that does not fit an int.
DrawCopies(bb, src) ==
    {<<0, 0, 0, 0, src.width, src.height>>, <<0 - 2, 0 - 1, 0, 0, 5, 5>>,
     <<0, 0, 0 - 2, 0 - 1, 5, 5>>, <<src.width - 2, src.height - 2, 0, 0, 5, 5>>,
     <<0, 0, bb.width - 2, bb.height - 2, 5, 5>>, <<src.width, 0, 0, 0, 3, 3>>,
     <<1, 1, 2, 1, 2, 2>>, <<0, 0, MaxInt, 0, 1, 1>>}

\* The tracked cells: around both ends of every frame the manager lays out on
\* either page, the small buffers, and the cells of the pixels inside.
DrawWindow(m) ==
    {base + size + d : base \in {FRAME0_ADDR, FRAME1_ADDR},
                       size \in {0, MODE4_FRAME_SIZE, MODE5_FRAME_SIZE,
                                 MODE3_FRAME_SIZE},
                       d \in {0 - 4, 0 - 2, 0, 2}}
    \cup {base + d : base \in {FRAME0_ADDR, FRAME1_ADDR}, d \in {2 * i : i \in 0..25}}
    \cup {IF m.bpp = 16 THEN getPixelAddr(BufferAt(m, base), p[1], p[2])
                         ELSE PixelWord(BufferAt(m, base), p[1], p[2]) :
             base \in {FRAME0_ADDR, FRAME1_ADDR},
             p \in {q \in DrawPixels(BufferAt(m, FRAME0_ADDR)) :
                       InBounds(BufferAt(m, FRAME0_ADDR), q[1], q[2])}}
    \cup Window(m)

\* A manager in mode 3, 4 or 5 showing either page, with the views a swap has
\* last computed, and frame memory holding a pattern.
InitDraw ==
    /\ \E mode \in {MODE_3, MODE_4, MODE_5}, page \in {0, 1} :
          LET m == [NewVRAMManager(mode) EXCEPT !.currentPage = page] IN
          /\ vm = m
          /\ frontBuffer = GetCurrentBuffer(m)
          /\ backBuffer = GetBackBuffer(m)
          /\ displayBuffer = GetCurrentBuffer(m)
          /\ DISPCNT = updateDisplayControl(m)
          /\ vram = [a \in DrawWindow(m) |-> Pattern(a)]
    /\ obj = "double"
    /\ vsyncEnabled = TRUE
    /\ swapRequested = FALSE
    /\ wasEnabled = FALSE
    /\ pc = "idle"
    /\ call = "New"
    /\ trace = <<>>
    /\ entry = NoEntry
    /\ hist = <<>>
    /\ requests = 0
    /\ lastPlot = NoPlot
    /\ ret = NoRet
    /\ InitChannelIdle
    /\ InitPackages

\* The program makes one drawing call; after a pixel write it may read a pixel back.
NextDraw ==
    \/ \E bb \in DrawBuffers : \E p \in DrawPixels(bb), color \in DrawColors :
          call = "New" /\ CallPlotPixel(bb, p[1], p[2], color)
    \/ \E bb \in DrawBuffers : \E p \in DrawPixels(bb), color \in DrawColors :
          call = "New" /\ CallPlotPixelFast(bb, p[1], p[2], color)
    \/ \E bb \in DrawBuffers : \E p \in DrawPixels(bb) :
          /\ call \in {"New", "PlotPixel", "PlotPixelFast"}
          /\ call # "New" => bb = ret.bb
          /\ CallGetPixel(bb, p[1], p[2])
    \/ \E p \in Mode4Pixels, paletteIndex \in PaletteIndices :
          call = "New" /\ CallSetPixelMode4(p[1], p[2], paletteIndex)
    \/ \E p \in Mode4Pixels :
          call \in {"New", "SetPixelMode4"} /\ CallGetPixelMode4(p[1], p[2])
    \/ \E bb \in DrawBuffers, color \in SampleColors :
          call = "New" /\ CallClear(bb, color)
    \/ \E bb \in DrawBuffers :
          \E r \in DrawRects(bb) \cup WideRects, color \in SampleColors :
             call = "New" /\ CallFillRect(bb, r[1], r[2], r[3], r[4], color)
    \/ \E bb \in DrawBuffers : \E l \in DrawLines(bb), color \in SampleColors :
          call = "New" /\ CallDrawLine(bb, l[1], l[2], l[3], l[4], color)
    \/ \E bb \in DrawBuffers : \E c \in DrawCircles(bb), color \in SampleColors :
          call = "New" /\ CallDrawCircle(bb, c[1], c[2], c[3], color)
    \/ \E bb \in DrawBuffers : \E c \in DrawCircles(bb), color \in SampleColors :
          call = "New" /\ CallFillCircle(bb, c[1], c[2], c[3], color)
    \/ \E bb \in DrawBuffers : \E src \in DrawSources(bb) :
          \E c \in DrawCopies(bb, src) :
             call = "New" /\ CallCopyFrom(bb, src, c[1], c[2], c[3], c[4], c[5], c[6])
    \/ \E bb \in ManagerBuffers : \E r \in DrawRects(bb), color \in SampleColors :
          call = "New" /\ CallFastFill(bb, r[1], r[2], r[3], r[4], color)
    \/ \E bb \in ManagerBuffers, color \in SampleColors :
          call = "New" /\ CallFastClear(bb, color)
    \/ \E bb \in ManagerBuffers : \E src \in DrawSources(bb) :
          call = "New" /\ CallFastCopy(bb, src)
    \/ FastIssue
    \/ FastCpu
    \/ FastReturn
    \/ DmaSpin("main")
    \/ DmaReady("main")
    \/ DmaSetSAD("main")
    \/ DmaSetDAD("main")
    \/ DmaSetCNT_L("main")
    \/ DmaSetCNT_H("main")
    \/ DmaDone("main")
    \/ HwComplete

SpecDraw == InitDraw /\ [][NextDraw]_vars

(***************************************************************************)
(* Accesses to a MemoryRegion                                              *)
(***************************************************************************)
\* Book-keeping of a region access: what it was given (the offset as its two
\* halfwords, the size of the region, the halfwords written), what it returned,
\* and the bytes the bus touched for it.
Accessed(name, args, mem, value, touched) ==
    /\ MainIdle
    /\ vram' = mem
    /\ call' = name
    /\ trace' = touched
    /\ entry' = [NoEntry EXCEPT !.mem = vram]
    /\ hist' = <<>>
    /\ lastPlot' = NoPlot
    /\ ret' = [value |-> value, bb |-> NoBuffer, src |-> NoBuffer, args |-> args,
               err |-> FALSE]
    /\ UNCHANGED <<packageVars, obj, vm, frontBuffer, backBuffer, displayBuffer, vsyncEnabled,
                   swapRequested, wasEnabled, DISPCNT, pc, requests, dmaVars>>

\* The bytes an access of the given width touches when it is carried out at at.
Touched(performed, at, width) ==
    IF ~performed THEN <<>> ELSE [i \in 1..width |-> at + i - 1]

CallRead16(size, offset) ==
    LET r == NewMemoryRegion(VRAM_BASE, size) IN
    \E at \in BusAddresses(Address(r, offset), 2) :
        Accessed("Read16", <<offset.lo, offset.hi, size>>, vram,
                 Word32(Read16(r, vram, offset, at), 0),
                 Touched(MemoryRegionInBounds(r, Add32(offset, Uintptr(1))), at, 2))

CallWrite16(size, offset, value) ==
    LET r == NewMemoryRegion(VRAM_BASE, size) IN
    \E at \in BusAddresses(Address(r, offset), 2) :
        Accessed("Write16", <<offset.lo, offset.hi, size, value>>,
                 Write16(r, vram, offset, value, at), Word32(0, 0),
                 Touched(MemoryRegionInBounds(r, Add32(offset, Uintptr(1))), at, 2))

CallRead32(size, offset) ==
    LET r == NewMemoryRegion(VRAM_BASE, size) IN
    \E at \in BusAddresses(Address(r, offset), 4) :
        Accessed("Read32", <<offset.lo, offset.hi, size>>, vram,
                 Read32(r, vram, offset, at),
                 Touched(MemoryRegionInBounds(r, Add32(offset, Uintptr(3))), at, 4))

CallWrite32(size, offset, value) ==
    LET r == NewMemoryRegion(VRAM_BASE, size) IN
    \E at \in BusAddresses(Address(r, offset), 4) :
        Accessed("Write32", <<offset.lo, offset.hi, size, value.lo, value.hi>>,
                 Write32(r, vram, offset, value, at), Word32(0, 0),
                 Touched(MemoryRegionInBounds(r, Add32(offset, Uintptr(3))), at, 4))

\* region.Clear() and region.Fill16(value) on a region of the given size
CallRegionClear(size) ==
    Accessed("RegionClear", <<0, 0, size>>,
             MemoryRegionClear(NewMemoryRegion(VRAM_BASE, size), vram),
             Word32(0, 0), <<>>)

CallFill16(size, value) ==
    Accessed("Fill16", <<0, 0, size, value>>,
             Fill16(NewMemoryRegion(VRAM_BASE, size), vram, value),
             Word32(0, 0), <<>>)

\* The sizes of the regions cleared and filled: every size up to MaxFill bytes.
MaxFill == 9

FillSizes == 0..MaxFill

\* The sizes of the regions accessed: the region of the package's test and
\* VRAMRegions.Mode4.
RegionSizes == {1024, SCREEN_WIDTH * SCREEN_HEIGHT}

\* The offsets: aligned ones at the start of the region and around its end, and
\* the four largest values a uintptr can hold.
RegionOffsets(size) ==
    {Uintptr(0), Uintptr(4), Uintptr(size - 4), Uintptr(size - 2), Uintptr(size),
     Uintptr(size + 4), Word32(65532, 65535), Word32(65533, 65535),
     Word32(65534, 65535), Word32(65535, 65535)}

RegionValues == {Word32(4660, 22136), Word32(65535, 65535)}

\* The tracked cells: around the start of the region and around each of its ends.
RegionWindow ==
    {VRAM_BASE + size + d : size \in {0} \cup RegionSizes,
                            d \in {0 - 4, 0 - 2, 0, 2, 4, 6}}
    \cup {VRAM_BASE + 2 * i : i \in 0..(MaxFill \div 2 + 2)}

InitRegion ==
    /\ InitBuffers({"double"})
    /\ vram = [a \in RegionWindow |-> Pattern(a)]
    /\ InitChannelIdle
    /\ InitPackages

\* The program makes one access or clears or fills a region, and after a write
\* it makes one read.
NextRegion ==
    \/ /\ call \in {"New", "Write16", "Write32"}
       /\ \E size \in RegionSizes : \E offset \in RegionOffsets(size) :
             CallRead16(size, offset)
    \/ /\ call = "New"
       /\ \E size \in RegionSizes : \E offset \in RegionOffsets(size) :
             \E value \in RegionValues : CallWrite16(size, offset, value.lo)
    \/ /\ call \in {"New", "Write16", "Write32"}
       /\ \E size \in RegionSizes : \E offset \in RegionOffsets(size) :
             CallRead32(size, offset)
    \/ /\ call = "New"
       /\ \E size \in RegionSizes : \E offset \in RegionOffsets(size) :
             \E value \in RegionValues : CallWrite32(size, offset, value)
    \/ /\ call = "New"
       /\ \E size \in FillSizes : CallRegionClear(size)
    \/ /\ call = "New"
       /\ \E size \in FillSizes : \E value \in RegionValues :
             CallFill16(size, value.lo)

SpecRegion == InitRegion /\ [][NextRegion]_vars

(***************************************************************************)
(* TileData and ScreenData (lib/vram/tiles.go)                             *)
(***************************************************************************)
CHAR_BASE_SIZE == 16384
SCREEN_BASE_SIZE == 2048
MAX_CHAR_BLOCKS == 4
MAX_SCREEN_BLOCKS == 32
TILE_4BPP_SIZE == 32
TILE_8BPP_SIZE == 64

\* The nil *TileData: a view without a base.
NilTileData == [bpp |-> 0, base |-> 0, charBlock |-> 0, maxTiles |-> 0]

GetCharacterData(charBlock, bpp) ==
    IF charBlock < 0 \/ charBlock >= MAX_CHAR_BLOCKS THEN NilTileData
    ELSE [bpp |-> bpp, base |-> VRAM_BASE + charBlock * CHAR_BASE_SIZE,
          charBlock |-> charBlock,
          maxTiles |-> IF bpp = 4 THEN CHAR_BASE_SIZE \div TILE_4BPP_SIZE
                       ELSE CHAR_BASE_SIZE \div TILE_8BPP_SIZE]

\* tileSize, as LoadTile, GetTile and ClearTile compute it
TileSize(td) == IF td.bpp = 4 THEN TILE_4BPP_SIZE ELSE TILE_8BPP_SIZE

\* tileAddr := td.base + uintptr(tileIndex*tileSize)
TileAddr(td, tileIndex) == AddInt(td.base, MulInt(tileIndex, TileSize(td)))

\* A tile index that takes every value below maxTiles + 1.
TileIndexOk_Inclusive(td, tileIndex) == tileIndex >= 0 /\ tileIndex <= td.maxTiles

\* The index check LoadTile, GetTile and ClearTile start with.
TileIndexOk(td, tileIndex) == tileIndex >= 0 /\ tileIndex < td.maxTiles

\* LoadTile returns nil exactly when its two checks pass.
LoadTileOk(td, tileIndex, data) ==
    TileIndexOk(td, tileIndex) /\ Len(data) = TileSize(td)

\* LoadTile's loop, for i from the given one in steps of 2; data[i] of the
\* code is data[i + 1] here
RECURSIVE LoadTileFrom(_, _, _, _, _)
LoadTileFrom(td, mem, tileIndex, data, i) ==
    IF i >= TileSize(td) THEN mem
    ELSE LoadTileFrom(td,
                      Store16(mem, TileAddr(td, tileIndex) + i,
                              IF i + 1 < Len(data)
                              THEN BitOr(data[i + 1], data[i + 2] * 256)
                              ELSE data[i + 1]),
                      tileIndex, data, i + 2)

LoadTile(td, mem, tileIndex, data) ==
    IF ~LoadTileOk(td, tileIndex, data) THEN mem
    ELSE LoadTileFrom(td, mem, tileIndex, data, 0)

\* TileData.GetTile: the bytes it returns (none together with an error)
GetTile(td, mem, tileIndex) ==
    IF ~TileIndexOk(td, tileIndex) THEN <<>>
    ELSE [k \in 1..TileSize(td) |->
             LET value == Load16(mem, TileAddr(td, tileIndex) + (k - 1) - ((k - 1) % 2))
             IN IF (k - 1) % 2 = 0 THEN BitAnd(value, 255) ELSE value \div 256]

\* ClearTile's loop
RECURSIVE ClearTileFrom(_, _, _, _)
ClearTileFrom(td, mem, tileIndex, i) ==
    IF i >= TileSize(td) THEN mem
    ELSE ClearTileFrom(td, Store16(mem, TileAddr(td, tileIndex) + i, 0),
                       tileIndex, i + 2)

ClearTile(td, mem, tileIndex) ==
    IF ~TileIndexOk(td, tileIndex) THEN mem
    ELSE ClearTileFrom(td, mem, tileIndex, 0)

\* The nil *ScreenData: a view without a base.
NilScreenData == [width |-> 0, height |-> 0, base |-> 0, screenBlock |-> 0,
                  maxEntries |-> 0]

GetScreenData(screenBlock, width, height) ==
    IF screenBlock < 0 \/ screenBlock >= MAX_SCREEN_BLOCKS THEN NilScreenData
    ELSE [width |-> width, height |-> height,
          base |-> VRAM_BASE + screenBlock * SCREEN_BASE_SIZE,
          screenBlock |-> screenBlock, maxEntries |-> 1024]

\* ScreenData.InBounds
ScreenInBounds(sd, x, y) == x >= 0 /\ x < sd.width /\ y >= 0 /\ y < sd.height

\* entryIndex := y*sd.width + x
EntryIndex(sd, x, y) == AddInt(MulInt(y, sd.width), x)

\* entryAddr := sd.base + uintptr(entryIndex*2)
EntryAddr(sd, entryIndex) == AddInt(sd.base, MulInt(entryIndex, 2))

\* A screen entry that keeps the whole tile index.
ScreenEntry_Unmasked(tileIndex, attributes) ==
    BitOr(tileIndex % 65536, BitAnd(attributes, 64512))

\* screenEntry := uint16(tileIndex&0x3FF) | (attributes & 0xFC00)
ScreenEntry(tileIndex, attributes) ==
    BitOr(tileIndex % 1024, BitAnd(attributes, 64512))

\* SetTile returns nil exactly when its two checks pass.
SetTileOk(sd, x, y) ==
    ScreenInBounds(sd, x, y) /\ ~(EntryIndex(sd, x, y) >= sd.maxEntries)

SetTile(sd, mem, x, y, tileIndex, attributes) ==
    IF ~SetTileOk(sd, x, y) THEN mem
    ELSE Store16(mem, EntryAddr(sd, EntryIndex(sd, x, y)),
                 ScreenEntry(tileIndex, attributes))

\* ScreenData.GetTile: the tile index and the attributes it returns
ScreenGetTile(sd, mem, x, y) ==
    IF ~SetTileOk(sd, x, y) THEN [tileIndex |-> 0, attributes |-> 0]
    ELSE LET screenEntry == Load16(mem, EntryAddr(sd, EntryIndex(sd, x, y)))
         IN [tileIndex |-> BitAnd(screenEntry, 1023),
             attributes |-> BitAnd(screenEntry, 64512)]

\* The loop of ClearScreen and of FillScreen, for i from lo up to hi - 1 in
\* ascending order: the first half of the range, then the second
\* (with no cell in the window there is nothing for the loop to change)
RECURSIVE FillEntries(_, _, _, _, _)
FillEntries(sd, mem, screenEntry, lo, hi) ==
    IF lo >= hi \/ DOMAIN mem = {} THEN mem
    ELSE IF hi = lo + 1 THEN Store16(mem, EntryAddr(sd, lo), screenEntry)
    ELSE FillEntries(sd, FillEntries(sd, mem, screenEntry, lo, (lo + hi) \div 2),
                     screenEntry, (lo + hi) \div 2, hi)

ClearScreen(sd, mem) == FillEntries(sd, mem, 0, 0, sd.maxEntries)

FillScreen(sd, mem, tileIndex, attributes) ==
    LET totalEntries == MulInt(sd.width, sd.height) IN
    FillEntries(sd, mem, ScreenEntry(tileIndex, attributes), 0,
                IF totalEntries > sd.maxEntries THEN sd.maxEntries ELSE totalEntries)

\* One turn of SetTileRect's inner loop
SetTileRectEntry(sd, mem, r, screenEntry, dy, dx) ==
    LET entryIndex == AddInt(MulInt(AddInt(r.y, dy), sd.width), AddInt(r.x, dx)) IN
    IF entryIndex < sd.maxEntries
    THEN Store16(mem, EntryAddr(sd, entryIndex), screenEntry)
    ELSE mem

\* SetTileRect's inner loop, for dx from lo up to hi - 1 in ascending order
RECURSIVE SetTileSpan(_, _, _, _, _, _, _)
SetTileSpan(sd, mem, r, screenEntry, dy, lo, hi) ==
    IF lo >= hi \/ DOMAIN mem = {} THEN mem
    ELSE IF hi = lo + 1 THEN SetTileRectEntry(sd, mem, r, screenEntry, dy, lo)
    ELSE SetTileSpan(sd, SetTileSpan(sd, mem, r, screenEntry, dy, lo, (lo + hi) \div 2),
                     r, screenEntry, dy, (lo + hi) \div 2, hi)

\* SetTileRect's outer loop, for dy from lo up to hi - 1 in ascending order
RECURSIVE SetTileRowSpan(_, _, _, _, _, _)
SetTileRowSpan(sd, mem, r, screenEntry, lo, hi) ==
    IF lo >= hi \/ DOMAIN mem = {} THEN mem
    ELSE IF hi = lo + 1 THEN SetTileSpan(sd, mem, r, screenEntry, lo, 0, r.width)
    ELSE SetTileRowSpan(sd, SetTileRowSpan(sd, mem, r, screenEntry, lo, (lo + hi) \div 2),
                        r, screenEntry, (lo + hi) \div 2, hi)

\* SetTileRect clamps as FillRect does, against the view's width and height.
SetTileRect(sd, mem, x, y, width, height, tileIndex, attributes) ==
    LET r == ClampRect(sd, x, y, width, height) IN
    IF r.width <= 0 \/ r.height <= 0 THEN mem
    ELSE SetTileRowSpan(sd, mem, r, ScreenEntry(tileIndex, attributes), 0, r.height)

TILE_HFLIP == 1024
TILE_VFLIP == 2048
TILE_PAL_MASK == 61440

\* uint16((palette & 0xF) << 12)
SetTilePalette(palette) == (palette % 16) * 4096

SetTileFlip(hflip, vflip) ==
    BitOr(IF hflip THEN TILE_HFLIP ELSE 0, IF vflip THEN TILE_VFLIP ELSE 0)

RECURSIVE CombineTileAttributes(_)
CombineTileAttributes(attrs) ==
    IF attrs = <<>> THEN 0
    ELSE BitOr(CombineTileAttributes(SubSeq(attrs, 1, Len(attrs) - 1)),
               attrs[Len(attrs)])

(***************************************************************************)
(* Calls on tile and map views                                             *)
(***************************************************************************)
\* Book-keeping of a call on a view: the memory before it, what it was given
\* and what it returned, and the call made before it with what that returned.
Tiled(name, args, mem, value, err) ==
    /\ MainIdle
    /\ vram' = mem
    /\ call' = name
    /\ trace' = <<call>>
    /\ entry' = [NoEntry EXCEPT !.mem = vram]
    /\ hist' = <<ret>>
    /\ lastPlot' = NoPlot
    /\ ret' = [value |-> value, bb |-> NoBuffer, src |-> NoBuffer, args |-> args,
               err |-> err]
    /\ UNCHANGED <<packageVars, obj, vm, frontBuffer, backBuffer, displayBuffer, vsyncEnabled,
                   swapRequested, wasEnabled, DISPCNT, pc, requests, dmaVars>>

\* td := GetCharacterData(charBlock, bpp); err stands for a nil view
CallGetCharacterData(charBlock, bpp) ==
    Tiled("GetCharacterData", <<charBlock, bpp>>, vram,
          GetCharacterData(charBlock, bpp),
          GetCharacterData(charBlock, bpp) = NilTileData)

\* err := td.LoadTile(tileIndex, data)
CallLoadTile(td, tileIndex, data) ==
    Tiled("LoadTile", <<td, tileIndex, data>>, LoadTile(td, vram, tileIndex, data),
          <<>>, ~LoadTileOk(td, tileIndex, data))

\* data, err := td.GetTile(tileIndex)
CallGetTile(td, tileIndex) ==
    Tiled("GetTile", <<td, tileIndex>>, vram, GetTile(td, vram, tileIndex),
          ~TileIndexOk(td, tileIndex))

\* err := td.ClearTile(tileIndex)
CallClearTile(td, tileIndex) ==
    Tiled("ClearTile", <<td, tileIndex>>, ClearTile(td, vram, tileIndex), <<>>,
          ~TileIndexOk(td, tileIndex))

\* sd := GetScreenData(screenBlock, width, height); err stands for a nil view
CallGetScreenData(screenBlock, width, height) ==
    Tiled("GetScreenData", <<screenBlock, width, height>>, vram,
          GetScreenData(screenBlock, width, height),
          GetScreenData(screenBlock, width, height) = NilScreenData)

\* err := sd.SetTile(x, y, tileIndex, attributes)
CallSetTile(sd, x, y, tileIndex, attributes) ==
    Tiled("SetTile", <<sd, x, y, tileIndex, attributes>>,
          SetTile(sd, vram, x, y, tileIndex, attributes), <<>>, ~SetTileOk(sd, x, y))

\* tileIndex, attributes, err := sd.GetTile(x, y)
CallScreenGetTile(sd, x, y) ==
    Tiled("ScreenGetTile", <<sd, x, y>>, vram, ScreenGetTile(sd, vram, x, y),
          ~SetTileOk(sd, x, y))

\* sd.ClearScreen(), sd.FillScreen(tileIndex, attributes) and
\* sd.SetTileRect(x, y, width, height, tileIndex, attributes) return nothing
CallClearScreen(sd) ==
    Tiled("ClearScreen", <<sd>>, ClearScreen(sd, vram), <<>>, FALSE)

CallFillScreen(sd, tileIndex, attributes) ==
    Tiled("FillScreen", <<sd, tileIndex, attributes>>,
          FillScreen(sd, vram, tileIndex, attributes), <<>>, FALSE)

CallSetTileRect(sd, x, y, width, height, tileIndex, attributes) ==
    Tiled("SetTileRect", <<sd, x, y, width, height, tileIndex, attributes>>,
          SetTileRect(sd, vram, x, y, width, height, tileIndex, attributes),
          <<>>, FALSE)

\* The attribute helpers return a uint16 and nothing else.
CallSetTilePalette(palette) ==
    Tiled("SetTilePalette", <<palette>>, vram, SetTilePalette(palette), FALSE)

CallSetTileFlip(hflip, vflip) ==
    Tiled("SetTileFlip", <<hflip, vflip>>, vram, SetTileFlip(hflip, vflip), FALSE)

CallCombineTileAttributes(attrs) ==
    Tiled("CombineTileAttributes", attrs, vram, CombineTileAttributes(attrs), FALSE)

\* The character blocks asked for: the first, the last, and one on either side
\* of the range; a program calls methods on the views that are not nil.
CharBlocks == {0 - 1, 0, MAX_CHAR_BLOCKS - 1, MAX_CHAR_BLOCKS}

TileViews ==
    {GetCharacterData(charBlock, bpp) : charBlock \in CharBlocks, bpp \in {4, 8}}
    \ {NilTileData}

\* The slots used: the first two, the last, and one on either side of the range.
TileIndices(td) == {0 - 1, 0, 1, td.maxTiles - 1, td.maxTiles}

TileBytes(n, k) == [i \in 1..n |-> (i * k + 3) % 256]

\* Data of the tile's size, and data that is too short, too long, empty, or of
\* the size of a tile of the other depth.
TileDatas(td) ==
    {TileBytes(TileSize(td), 7), TileBytes(TileSize(td), 255),
     TileBytes(TileSize(td) - 1, 7), TileBytes(TileSize(td) + 1, 7), <<>>,
     TileBytes(TILE_4BPP_SIZE + TILE_8BPP_SIZE - TileSize(td), 7)}

\* The screen blocks asked for, and the sizes of the views: GetScreenData takes
\* any width and height.
ScreenBlocks == {0 - 1, 0, 1, MAX_SCREEN_BLOCKS - 1, MAX_SCREEN_BLOCKS}

ScreenSizes == {<<32, 32>>, <<64, 64>>, <<65536, 65536>>, <<1025, 2>>}

ScreenViews ==
    ({GetScreenData(0, s[1], s[2]) : s \in ScreenSizes}
     \cup {GetScreenData(screenBlock, 32, 32) : screenBlock \in ScreenBlocks})
    \ {NilScreenData}

MapCoords ==
    {<<0, 0>>, <<1, 0>>, <<2, 0>>, <<5, 5>>, <<31, 31>>, <<63, 15>>, <<0, 16>>,
     <<0 - 1, 0>>, <<0, 0 - 1>>, <<32, 0>>, <<0, 32>>, <<1024, 32768>>}

MapRects ==
    {<<0, 0, 2, 1>>, <<0 - 1, 0 - 1, 3, 2>>, <<30, 31, 5, 5>>, <<5, 5, 1, 1>>,
     <<0, 0, 0, 0>>, <<MaxInt, 1, 1, 1>>}

MapTileIndices == {0, 7, 1023, 1024, 1031, 0 - 1}

Palettes == {0 - 1, 0, 3, 15, 16, 19}

Flips == {<<h, v>> : h \in BOOLEAN, v \in BOOLEAN}

AttributeLists ==
    {<<>>, <<SetTilePalette(3)>>, <<SetTilePalette(15), SetTileFlip(TRUE, TRUE)>>,
     <<SetTileFlip(TRUE, FALSE), SetTilePalette(3), SetTileFlip(FALSE, TRUE)>>,
     <<4660, 255>>}

MapAttributes == {CombineTileAttributes(attrs) : attrs \in AttributeLists}

\* The tracked cells: the first two slots and the last slot of each character
\* block used, the entries of each screen block that the coordinates above
\* name, and the cells on either side of each block.
TileWindow ==
    {VRAM_BASE + charBlock * CHAR_BASE_SIZE + d :
        charBlock \in CharBlocks \cap 0..(MAX_CHAR_BLOCKS - 1),
        d \in {2 * i - 2 : i \in 0..(TILE_8BPP_SIZE + 2)}
              \cup {CHAR_BASE_SIZE - 2 * i : i \in 0..(TILE_8BPP_SIZE \div 2 + 1)}}
    \cup {VRAM_BASE + screenBlock * SCREEN_BASE_SIZE + 2 * i :
             screenBlock \in ScreenBlocks \cap 0..(MAX_SCREEN_BLOCKS - 1),
             i \in {0 - 2, 0 - 1, 0, 1, 2, 32, 165, 325, 512, 1020, 1021, 1022,
                    1023, 1024, 1025, 1026}}

InitTiles ==
    /\ InitBuffers({"double"})
    /\ vram = [a \in TileWindow |-> Pattern(a)]
    /\ InitChannelIdle
    /\ InitPackages

TileWrites == {"LoadTile", "ClearTile"}

MapWrites == {"SetTile", "ClearScreen", "FillScreen", "SetTileRect"}

\* The program makes one call, and after a call that writes it reads a slot or
\* an entry through the same view.
NextTiles ==
    \/ /\ call = "New"
       /\ \E charBlock \in CharBlocks : \E bpp \in {4, 8} :
             CallGetCharacterData(charBlock, bpp)
    \/ /\ call = "New"
       /\ \E td \in TileViews : \E tileIndex \in TileIndices(td) :
             \E data \in TileDatas(td) : CallLoadTile(td, tileIndex, data)
    \/ /\ call = "New"
       /\ \E td \in TileViews : \E tileIndex \in TileIndices(td) :
             CallClearTile(td, tileIndex)
    \/ /\ call \in {"New"} \cup TileWrites
       /\ \E td \in TileViews : \E tileIndex \in TileIndices(td) :
             /\ call \in TileWrites => td = ret.args[1]
             /\ CallGetTile(td, tileIndex)
    \/ /\ call = "New"
       /\ \E screenBlock \in ScreenBlocks : \E s \in ScreenSizes :
             CallGetScreenData(screenBlock, s[1], s[2])
    \/ /\ call = "New"
       /\ \E sd \in ScreenViews : \E c \in MapCoords :
             \E tileIndex \in MapTileIndices : \E attributes \in MapAttributes :
                CallSetTile(sd, c[1], c[2], tileIndex, attributes)
    \/ /\ call \in {"New"} \cup MapWrites
       /\ \E sd \in ScreenViews : \E c \in MapCoords :
             /\ call \in MapWrites => sd = ret.args[1]
             /\ CallScreenGetTile(sd, c[1], c[2])
    \/ /\ call = "New"
       /\ \E sd \in ScreenViews : CallClearScreen(sd)
    \/ /\ call = "New"
       /\ \E sd \in ScreenViews : \E tileIndex \in MapTileIndices :
             \E attributes \in MapAttributes :
                CallFillScreen(sd, tileIndex, attributes)
    \/ /\ call = "New"
       /\ \E sd \in ScreenViews : \E r \in MapRects :
             \E tileIndex \in MapTileIndices : \E attributes \in MapAttributes :
                CallSetTileRect(sd, r[1], r[2], r[3], r[4], tileIndex, attributes)
    \/ /\ call = "New"
       /\ \E palette \in Palettes : CallSetTilePalette(palette)
    \/ /\ call = "New"
       /\ \E f \in Flips : CallSetTileFlip(f[1], f[2])
    \/ /\ call = "New"
       /\ \E attrs \in AttributeLists : CallCombineTileAttributes(attrs)

SpecTiles == InitTiles /\ [][NextTiles]_vars

(***************************************************************************)
(* AnalyzeVRAMAddress (lib/vram/tiles.go); an address is a uintptr, kept   *)
(* as its two halfwords                                                    *)
(***************************************************************************)
\* a - b in uintptr arithmetic
Sub32(a, b) ==
    Word32((a.lo - b.lo) % 65536,
           (a.hi - b.hi - (IF a.lo < b.lo THEN 1 ELSE 0)) % 65536)

\* int(a) for a uintptr below 2^31, and int(a / 2) for any uintptr
ToInt(a) == a.hi * 65536 + a.lo

HalfInt(a) == (a.hi \div 2) * 65536 + ((a.hi % 2) * 65536 + a.lo) \div 2

\* A validity test without the lower bound.
ValidateVRAMAccess_NoLowerBound(addr, size) ==
    ~Less32(Uintptr(VRAM_BASE + VRAM_SIZE), Add32(addr, Uintptr(size)))

\* addr >= VRAM_BASE && addr+uintptr(size) <= VRAM_BASE+VRAM_SIZE
ValidateVRAMAccess(addr, size) ==
    /\ ~Less32(addr, Uintptr(VRAM_BASE))
    /\ ~Less32(Uintptr(VRAM_BASE + VRAM_SIZE), Add32(addr, Uintptr(size)))

CalculateCharBlock(addr) ==
    IF Less32(addr, Uintptr(VRAM_BASE)) \/ ~Less32(addr, Uintptr(VRAM_BASE + VRAM_SIZE))
    THEN 0 - 1
    ELSE ToInt(Sub32(addr, Uintptr(VRAM_BASE))) \div CHAR_BASE_SIZE

CalculateScreenBlock(addr) ==
    IF Less32(addr, Uintptr(VRAM_BASE)) \/ ~Less32(addr, Uintptr(VRAM_BASE + VRAM_SIZE))
    THEN 0 - 1
    ELSE LET offset == ToInt(Sub32(addr, Uintptr(VRAM_BASE))) IN
         IF offset >= 32768 THEN (offset - 32768) \div SCREEN_BASE_SIZE ELSE 0 - 1

AnalyzeVRAMAddress(addr, mode) ==
    LET info == [Valid |-> ValidateVRAMAccess(addr, 1),
                 Offset |-> Sub32(addr, Uintptr(VRAM_BASE)),
                 CharBlock |-> 0 - 1, ScreenBlock |-> 0 - 1, TileIndex |-> 0 - 1,
                 PixelX |-> 0 - 1, PixelY |-> 0 - 1]
    IN
    IF ~info.Valid THEN info
    ELSE IF mode = MODE_3 THEN
        LET pixelOffset == HalfInt(info.Offset) IN
        [info EXCEPT !.PixelX = pixelOffset % SCREEN_WIDTH,
                     !.PixelY = pixelOffset \div SCREEN_WIDTH]
    ELSE IF mode = MODE_4 THEN
        IF Less32(info.Offset, Uintptr(MODE4_FRAME_SIZE)) THEN
            [info EXCEPT !.PixelX = ToInt(info.Offset) % SCREEN_WIDTH,
                         !.PixelY = ToInt(info.Offset) \div SCREEN_WIDTH]
        ELSE IF Less32(info.Offset, Uintptr(MODE4_FRAME_SIZE * 2)) THEN
            LET frameOffset == ToInt(info.Offset) - MODE4_FRAME_SIZE IN
            [info EXCEPT !.PixelX = frameOffset % SCREEN_WIDTH,
                         !.PixelY = frameOffset \div SCREEN_WIDTH]
        ELSE info
    ELSE IF mode = MODE_5 THEN
        LET pixelOffset == HalfInt(info.Offset) IN
        IF pixelOffset < 160 * 128 THEN
            [info EXCEPT !.PixelX = pixelOffset % 160, !.PixelY = pixelOffset \div 160]
        ELSE IF pixelOffset < 160 * 128 * 2 THEN
            LET frameOffset == pixelOffset - 160 * 128 IN
            [info EXCEPT !.PixelX = frameOffset % 160, !.PixelY = frameOffset \div 160]
        ELSE info
    ELSE
        LET charBlock == CalculateCharBlock(addr) IN
        [info EXCEPT !.CharBlock = charBlock,
                     !.ScreenBlock = CalculateScreenBlock(addr),
                     !.TileIndex =
                         IF charBlock >= 0
                         THEN (ToInt(info.Offset) - charBlock * CHAR_BASE_SIZE)
                                 \div TILE_4BPP_SIZE
                         ELSE 0 - 1]

\* info := AnalyzeVRAMAddress(addr, mode)
CallAnalyzeVRAMAddress(addr, mode) ==
    Tiled("AnalyzeVRAMAddress", <<addr, mode>>, vram, AnalyzeVRAMAddress(addr, mode),
          FALSE)

\* The buffers of the pages a bitmap mode has.
PagesOf(mode) ==
    LET m == NewVRAMManager(mode) IN
    IF SupportsDoubleBuffering(m)
    THEN {BufferAt(m, FRAME0_ADDR), BufferAt(m, FRAME1_ADDR)}
    ELSE {BufferAt(m, FRAME0_ADDR)}

\* The addresses analysed: those of the pixels above on every page of modes 3,
\* 4 and 5, and addresses on either side of VRAM, in palette memory and at
\* both ends of the address space.
AnalyzedAddresses ==
    {Uintptr(getPixelAddr(bb, p[1], p[2])) :
        bb \in UNION {PagesOf(mode) : mode \in {MODE_3, MODE_4, MODE_5}},
        p \in {<<0, 0>>, <<1, 0>>, <<0, 1>>, <<2, 1>>, <<100, 0>>, <<17, 9>>,
               <<159, 10>>, <<159, 127>>, <<239, 0>>, <<0, 159>>, <<239, 159>>}}
    \cup {Uintptr(VRAM_BASE - 1), Uintptr(VRAM_BASE + VRAM_SIZE - 1),
          Uintptr(VRAM_BASE + VRAM_SIZE), Uintptr(83886080), Uintptr(0),
          Word32(65535, 65535), Word32(65534, 65535)}

InitAnalyze ==
    /\ InitBuffers({"double"})
    /\ vram = [a \in RegionWindow |-> Pattern(a)]
    /\ InitChannelIdle
    /\ InitPackages

\* The program analyses one address.
NextAnalyze ==
    \E addr \in AnalyzedAddresses, mode \in Modes :
        call = "New" /\ CallAnalyzeVRAMAddress(addr, mode)

SpecAnalyze == InitAnalyze /\ [][NextAnalyze]_vars

(***************************************************************************)
(* DrawLine, one turn of its loop at a time                                *)
(***************************************************************************)
\* The locals of DrawLine when it enters its loop.
DrawLineEnter(x1, y1, x2, y2) ==
    LET dx == IF SubInt(x2, x1) < 0 THEN SubInt(0, SubInt(x2, x1)) ELSE SubInt(x2, x1)
        dy == IF SubInt(y2, y1) < 0 THEN SubInt(0, SubInt(y2, y1)) ELSE SubInt(y2, y1)
    IN [x1 |-> x1, y1 |-> y1, dy |-> dy, dx |-> dx, err |-> SubInt(dx, dy),
        sx |-> IF x1 < x2 THEN 1 ELSE 0 - 1,
        sy |-> IF y1 < y2 THEN 1 ELSE 0 - 1]

\* A turn of the loop that never steps along y.
DrawLineTurn_NoYStep(l) ==
    LET e2 == MulInt(l.err, 2) IN
    IF e2 > SubInt(0, l.dy)
    THEN [l EXCEPT !.err = SubInt(l.err, l.dy), !.x1 = AddInt(l.x1, l.sx)]
    ELSE l

\* The locals after the two updates of one turn of the loop.
DrawLineTurn(l) ==
    LET e2 == MulInt(l.err, 2)
        l1 == IF e2 > SubInt(0, l.dy)
              THEN [l EXCEPT !.err = SubInt(l.err, l.dy), !.x1 = AddInt(l.x1, l.sx)]
              ELSE l
    IN IF e2 < l.dx
       THEN [l1 EXCEPT !.err = AddInt(l1.err, l.dx), !.y1 = AddInt(l.y1, l.sy)]
       ELSE l1

\* Bound: the turns of the loop a specification follows.
MaxTurns == 600

\* bb.DrawLine(x1, y1, x2, y2, color) is entered.
EnterDrawLine(bb, x1, y1, x2, y2, color) ==
    /\ MainIdle
    /\ call = "New"
    /\ pc' = "line"
    /\ call' = "DrawLine"
    /\ trace' = <<>>
    /\ entry' = [NoEntry EXCEPT !.mem = vram]
    /\ hist' = <<>>
    /\ lastPlot' = NoPlot
    /\ ret' = [value |-> DrawLineEnter(x1, y1, x2, y2), bb |-> bb, src |-> NoBuffer,
               args |-> <<x1, y1, x2, y2, color>>, err |-> FALSE]
    /\ UNCHANGED <<packageVars, obj, vm, frontBuffer, backBuffer, displayBuffer, vsyncEnabled,
                   swapRequested, wasEnabled, DISPCNT, requests, vram, dmaVars>>

\* One turn of the loop: the point is plotted if it is in bounds, the loop is
\* left at (x2, y2), and otherwise x1, y1 and err are updated.
DrawLineStep ==
    /\ pc = "line"
    /\ Len(hist) < MaxTurns
    /\ LET l == ret.value IN
       /\ vram' = IF InBounds(ret.bb, l.x1, l.y1)
                  THEN PlotPixelFast(ret.bb, vram, l.x1, l.y1, ret.args[5])
                  ELSE vram
       /\ hist' = Append(hist, [x |-> l.x1, y |-> l.y1,
                                valid |-> InBounds(ret.bb, l.x1, l.y1)])
       /\ IF l.x1 = ret.args[3] /\ l.y1 = ret.args[4]
          THEN pc' = "idle" /\ ret' = ret
          ELSE pc' = "line" /\ ret' = [ret EXCEPT !.value = DrawLineTurn(l)]
    /\ UNCHANGED <<packageVars, obj, vm, frontBuffer, backBuffer, displayBuffer, vsyncEnabled,
                   swapRequested, wasEnabled, DISPCNT, requests, call, trace, entry,
                   lastPlot, dmaVars>>

\* The buffers lines are drawn on, and the coordinates of their endpoints:
\* inside the small buffers and outside each of their edges.
LineBuffers == SmallBuffers \cup {NewBitmapBuffer(FRAME0_ADDR, 240, 160, 16)}

LineXs == {0 - 2, 0, 3, 7}

LineYs == {0 - 1, 0, 2, 5}

\* Lines across the whole of a buffer, from outside to outside; on the buffer
\* of the screen's size the diagonal only.
LongLines(bb) ==
    IF bb \in SmallBuffers
    THEN {<<0 - 3, bb.height + 2, bb.width + 3, 0 - 2>>,
          <<bb.width + 1, bb.height - 1, 0 - 2, bb.height - 1>>,
          <<1, bb.height + 4, 1, 0 - 4>>}
    ELSE {<<0 - 3, bb.height + 2, bb.width + 3, 0 - 2>>}

\* A colour wider than a byte.
LineColors == {503}

LineWindow == {FRAME0_ADDR + 2 * i : i \in 0..25}

InitLine ==
    /\ InitBuffers({"double"})
    /\ vm.mode = MODE_5
    /\ vram = [a \in LineWindow |-> Pattern(a)]
    /\ InitChannelIdle
    /\ InitPackages

NextLine ==
    \/ \E bb \in SmallBuffers, x1 \in LineXs, y1 \in LineYs, x2 \in LineXs, y2 \in LineYs,
          color \in LineColors : EnterDrawLine(bb, x1, y1, x2, y2, color)
    \/ \E bb \in LineBuffers : \E l \in LongLines(bb), color \in LineColors :
          EnterDrawLine(bb, l[1], l[2], l[3], l[4], color)
    \/ DrawLineStep

\* The processor keeps executing the loop.
SpecLine == InitLine /\ [][NextLine]_vars /\ WF_vars(DrawLineStep)

(***************************************************************************)
(* Package input: the keypad (a bit of KEYINPUT is 0 while its key is down) *)
(***************************************************************************)
KeyA == 1
KeyB == 2
KeyL == 512

WasBtnDown(key) == BitAnd(lastState, key) # 0

BtnDown(key) == BitAnd(currentState, key) = 0

BtnUp(key) == ~BtnDown(key)

BtnClicked(key) == BtnDown(key) /\ ~WasBtnDown(key)

\* The polls a specification follows.
MaxPolls == 3

\* Book-keeping of a call of package input or of Display(): hist keeps the
\* values read from the register, oldest first.
PackageCalled(name, args, value, read) ==
    /\ MainIdle
    /\ call' = name
    /\ trace' = <<>>
    /\ entry' = NoEntry
    /\ hist' = hist \o read
    /\ lastPlot' = NoPlot
    /\ ret' = [NoRet EXCEPT !.value = value, !.args = args]

\* Poll(), with the value it reads from KEYINPUT
Poll(keyinput) ==
    /\ Len(hist) < MaxPolls
    /\ PackageCalled("Poll", <<>>, 0, <<keyinput>>)
    /\ lastState' = currentState
    /\ currentState' = keyinput
    /\ UNCHANGED <<obj, vm, frontBuffer, backBuffer, displayBuffer, vsyncEnabled,
                   swapRequested, wasEnabled, DISPCNT, pc, requests, vram, dmaVars,
                   drawPage>>

\* A call of one of the four queries.
Queried(name, key, value) ==
    /\ PackageCalled(name, <<key>>, value, <<>>)
    /\ UNCHANGED <<obj, vm, frontBuffer, backBuffer, displayBuffer, vsyncEnabled,
                   swapRequested, wasEnabled, DISPCNT, pc, requests, vram, dmaVars,
                   packageVars>>

CallWasBtnDown(key) == Queried("WasBtnDown", key, WasBtnDown(key))

CallBtnDown(key) == Queried("BtnDown", key, BtnDown(key))

CallBtnUp(key) == Queried("BtnUp", key, BtnUp(key))

CallBtnClicked(key) == Queried("BtnClicked", key, BtnClicked(key))

\* The values KEYINPUT is read as: no key down, A down, B down, A and B down,
\* L down.
KeyInputs == {1023, 1023 - KeyA, 1023 - KeyB, 1023 - KeyA - KeyB, 1023 - KeyL}

Keys == {KeyA, KeyB, KeyL}

InitKeys ==
    /\ InitBuffers({"double"})
    /\ vram = NoMemory
    /\ InitChannelIdle
    /\ InitPackages

NextKeys ==
    \/ \E keyinput \in KeyInputs : Poll(keyinput)
    \/ \E key \in Keys : CallWasBtnDown(key)
    \/ \E key \in Keys : CallBtnDown(key)
    \/ \E key \in Keys : CallBtnUp(key)
    \/ \E key \in Keys : CallBtnClicked(key)

SpecKeys == InitKeys /\ [][NextKeys]_vars

(***************************************************************************)
(* Package drawing: Display()                                              *)
(***************************************************************************)
BitXor(a, b) == a + b - 2 * BitAnd(a, b)

\* The Display() calls a specification follows.
MaxDisplays == 9

\* old ^ (uint16(drawPage) << 4)
DisplayValue(old, page) == U16(BitXor(old, U16(page) * 2^4))

Display ==
    /\ Len(hist) < MaxDisplays
    /\ PackageCalled("Display", <<>>, 0, <<DISPCNT>>)
    /\ DISPCNT' = DisplayValue(DISPCNT, drawPage)
    /\ drawPage' = BitXor(drawPage, 1)
    /\ UNCHANGED <<obj, vm, frontBuffer, backBuffer, displayBuffer, vsyncEnabled,
                   swapRequested, wasEnabled, pc, requests, vram, dmaVars,
                   lastState, currentState>>

\* The display control when the program starts calling Display(): a bitmap
\* mode with background 2, with or without objects, showing either page.
DisplayControls ==
    {mode + page * FRAME_SELECT + BG2_ENABLE + objects * OBJ_ENABLE :
        mode \in {MODE_3, MODE_4, MODE_5}, page \in {0, 1}, objects \in {0, 1}}

InitDisplay ==
    /\ \E mode \in {MODE_3, MODE_4, MODE_5} :
          LET m == NewVRAMManager(mode) IN
          /\ vm = m
          /\ frontBuffer = GetCurrentBuffer(m)
          /\ backBuffer = GetBackBuffer(m)
          /\ displayBuffer = GetCurrentBuffer(m)
          /\ DISPCNT \in {d \in DisplayControls : d % 8 = mode}
    /\ obj = "double"
    /\ vsyncEnabled = TRUE
    /\ swapRequested = FALSE
    /\ wasEnabled = FALSE
    /\ pc = "idle"
    /\ call = "New"
    /\ trace = <<>>
    /\ entry = NoEntry
    /\ hist = <<>>
    /\ requests = 0
    /\ lastPlot = NoPlot
    /\ ret = NoRet
    /\ vram = NoMemory
    /\ InitChannelIdle
    /\ InitPackages

NextDisplay == Display

SpecDisplay == InitDisplay /\ [][NextDisplay]_vars

(***************************************************************************)
(* Properties of the swap protocol                                         *)
(***************************************************************************)
SwapCalls == {"Swap", "Present", "SwapWithoutVSync"}

Count(seq, e) == Cardinality({i \in 1..Len(seq) : seq[i] = e})

\* The steps one swap takes, in order.
Protocol(vs) ==
    (IF vs THEN <<"vsync">> ELSE <<>>) \o <<"flip", "views", "write">>

IsPrefix(s, t) == Len(s) <= Len(t) /\ SubSeq(t, 1, Len(s)) = s

\* A swapping call has gone through its DISPCNT write and nothing ran since.
Swapped ==
    /\ pc \in {"idle", "restore"}
    /\ \/ call \in SwapCalls
       \/ call = "Update" /\ entry.req

\* C1: every Swap / Present / SwapWithoutVSync, and every Update that drains a
\* pending swap, writes DISPCNT exactly once, as the full value
\* mode | (1<<10) | (page<<4) of the page after the flip, whatever the register
\* held before; so after a swap bit 4 is the current page, bits [2:0] the mode,
\* bit 10 is set and every other bit is 0. Any change of DISPCNT is such a write.
C1_DisplayControlWrite ==
    /\ [](Swapped =>
            /\ Count(trace, "write") = 1
            /\ DISPCNT = vm.mode + BG2_ENABLE + vm.currentPage * FRAME_SELECT
            /\ Bit(DISPCNT, 4) = vm.currentPage
            /\ DISPCNT % 8 = vm.mode
            /\ Bit(DISPCNT, 10) = 1
            /\ \A i \in 0..15 : i \notin {0, 1, 2, 4, 10} => Bit(DISPCNT, i) = 0)
    /\ [][DISPCNT' # DISPCNT =>
            /\ pc \in {"write", "twrite"}
            /\ DISPCNT' = vm.mode + BG2_ENABLE + vm.currentPage * FRAME_SELECT]_vars

\* C1 witness: SwapWithoutVSync has returned with page 1 shown.
C1_Witness ==
    /\ call = "SwapWithoutVSync"
    /\ pc = "idle"
    /\ vm.currentPage = 1
    /\ DISPCNT = MODE_4 + BG2_ENABLE + FRAME_SELECT

\* C2: within one DoubleBuffer.Swap the steps are, in this order, the
\* vertical-blank wait (once if vsync is enabled, never if it is disabled), the
\* page flip, the recomputation of the views, the DISPCNT write: the call is
\* always at a prefix of that sequence and returns only after all of it; the
\* wait is never after the flip, and the write finds the views recomputed.
C2_SwapOrder ==
    call \in SwapCalls =>
        /\ IsPrefix(trace, Protocol(entry.vsync))
        /\ pc \in {"idle", "restore"} => trace = Protocol(entry.vsync)
        /\ Count(trace, "vsync") = (IF entry.vsync THEN 1 ELSE 0) \/ pc = "vsync"
        /\ pc = "vsync" => vm.currentPage = entry.page /\ trace = <<>>
        /\ pc = "write" =>
            /\ frontBuffer = GetCurrentBuffer(vm)
            /\ backBuffer = GetBackBuffer(vm)
            /\ SubSeq(trace, Len(trace) - 1, Len(trace)) = <<"flip", "views">>

\* C2 witness: a Swap with vsync enabled has returned.
C2_Witness ==
    /\ call = "Swap"
    /\ pc = "idle"
    /\ entry.vsync
    /\ trace = <<"vsync", "flip", "views", "write">>

\* C3 as stated: in every reachable state of a DoubleBuffer one call to Swap
\* changes the page index from 0 to 1 or from 1 to 0.
C3_Original ==
    (call \in SwapCalls /\ pc \in {"idle", "restore"}) =>
        vm.currentPage = 1 - entry.page

\* C3 amended: one call to Swap flips the page index exactly when the manager's
\* mode is 4 or 5; in any other mode (reached through GetManager().SetMode) the
\* call leaves the page index as it was. The index is always 0 or 1.
C3_SwapFlipsInBufferedModes ==
    /\ vm.currentPage \in {0, 1}
    /\ (call \in SwapCalls /\ pc \in {"idle", "restore"}) =>
          vm.currentPage = IF vm.mode \in {MODE_4, MODE_5}
                           THEN 1 - entry.page
                           ELSE entry.page

\* C3 witness: a Swap returned in mode 3 without flipping, the page being 1.
C3_Witness ==
    /\ call = "Swap"
    /\ pc = "idle"
    /\ vm.mode = MODE_3
    /\ entry.page = 1
    /\ vm.currentPage = 1

\* C4 as stated: for a DoubleBuffer in a double-buffered mode, swap(); swap()
\* restores the page index, the front and back base addresses and the
\* page-select bit of DISPCNT to what they were before the first swap.
C4_SwapTwiceRestores ==
    (call \in SwapCalls /\ pc = "idle" /\ Len(hist) = 2
        /\ SupportsDoubleBuffering(vm)) =>
        /\ vm.currentPage = hist[2].page
        /\ frontBuffer.base = hist[2].front
        /\ backBuffer.base = hist[2].back
        /\ Bit(DISPCNT, 4) = hist[2].bit

\* C5: in modes 4 and 5 the page index is 0 or 1, the manager's front and back
\* buffers are FRAME0_ADDR and FRAME1_ADDR in one order or the other, the front
\* one being the page the index names; one swap exchanges the two bases; and
\* after DoubleBuffer.Swap the cached views are the manager's.
C5_FrontBackPages ==
    SupportsDoubleBuffering(vm) =>
        /\ vm.currentPage \in {0, 1}
        /\ GetCurrentBuffer(vm).base # GetBackBuffer(vm).base
        /\ {GetCurrentBuffer(vm).base, GetBackBuffer(vm).base}
               = {FRAME0_ADDR, FRAME1_ADDR}
        /\ GetCurrentBuffer(vm).base
               = (IF vm.currentPage = 0 THEN FRAME0_ADDR ELSE FRAME1_ADDR)
        /\ (pc = "idle" /\ call \in SwapCalls \cup {"SwapBuffers"}) =>
              LET old == [vm EXCEPT !.currentPage = entry.page] IN
              /\ GetCurrentBuffer(vm).base = GetBackBuffer(old).base
              /\ GetBackBuffer(vm).base = GetCurrentBuffer(old).base
        /\ (pc = "idle" /\ call \in SwapCalls) =>
              /\ frontBuffer = GetCurrentBuffer(vm)
              /\ backBuffer = GetBackBuffer(vm)

\* C5 witness: the manager's SwapBuffers made page 1 the front buffer.
C5_Witness ==
    /\ call = "SwapBuffers"
    /\ vm.mode = MODE_5
    /\ entry.page = 0
    /\ GetCurrentBuffer(vm).base = FRAME1_ADDR
    /\ GetBackBuffer(vm).base = FRAME0_ADDR

\* C7: TripleBuffer.Update runs the swap protocol if and only if a request is
\* pending and then clears the flag; however many RequestSwap calls came before,
\* it flips the page once; with nothing pending it changes nothing, does not
\* wait and does not write DISPCNT; displayBuffer is always frontBuffer.
C7_TripleBufferUpdate ==
    /\ [](obj = "triple" => displayBuffer = frontBuffer)
    /\ []((call = "Update" /\ pc = "idle") =>
            IF entry.req
            THEN /\ trace = Protocol(entry.vsync)
                 /\ Count(trace, "flip") = 1
                 /\ vm.currentPage = 1 - entry.page
                 /\ ~swapRequested
                 /\ DISPCNT = updateDisplayControl(vm)
            ELSE /\ trace = <<>>
                 /\ vm.currentPage = entry.page
                 /\ ~swapRequested)
    /\ []((call = "Update" /\ pc # "idle") => entry.req /\ swapRequested)
    /\ [][(pc = "idle" /\ obj = "triple" /\ call' = "Update" /\ ~swapRequested) =>
            UNCHANGED <<packageVars, ret, obj, vm, frontBuffer, backBuffer, displayBuffer,
                        vsyncEnabled, swapRequested, DISPCNT, pc, vram>>]_vars

\* C7 witness: an Update drained a flag that two RequestSwap calls had set.
C7_Witness ==
    /\ call = "Update"
    /\ pc = "idle"
    /\ entry.req
    /\ entry.nreq = 2
    /\ Count(trace, "flip") = 1
    /\ vm.currentPage = 1 - entry.page

(***************************************************************************)
(* Properties of frame memory across a swap                                *)
(***************************************************************************)
\* The last call was a swap that directly followed a successful plot on the
\* back buffer.
PlottedThenSwapped ==
    /\ call \in SwapCalls
    /\ pc \in {"idle", "restore"}
    /\ lastPlot.valid
    /\ lastPlot.swaps = 1

\* The page at base as it reads through the manager's geometry.
PageView(base) == BufferAt(vm, base)

\* C6 as stated: after PlotPixel(x,y,c) on the back buffer and one Swap,
\* GetPixel(x,y) on the new front buffer returns c, for every colour c.
C6_Original ==
    PlottedThenSwapped =>
        GetPixel(frontBuffer, vram, lastPlot.x, lastPlot.y) = lastPlot.color

\* C6 amended: no step of a swap writes frame memory; after PlotPixel(x,y,c) on
\* the back buffer and one Swap, GetPixel(x,y) on the new front buffer returns c
\* in 16-bit depth (mode 5) and the low byte of c in 8-bit depth (mode 4), the
\* new front buffer is the page that was plotted on, and every pixel of the new
\* back buffer reads what that page held before the swap.
C6_SwapKeepsFrameMemory ==
    /\ [][pc # "idle" => vram' = vram]_vars
    /\ [](PlottedThenSwapped =>
            /\ GetPixel(frontBuffer, vram, lastPlot.x, lastPlot.y)
                 = (IF frontBuffer.bpp = 16 THEN lastPlot.color
                    ELSE lastPlot.color % 256)
            /\ frontBuffer.base = lastPlot.base
            /\ backBuffer.base # lastPlot.base
            /\ vram = entry.mem
            /\ \A p \in SamplePixels :
                 GetPixel(backBuffer, vram, p[1], p[2])
                   = GetPixel(PageView(backBuffer.base), entry.mem, p[1], p[2]))

\* C6 witness: colour 503 was plotted at (11,10) on the mode-4 back buffer over
\* the pattern, the pages were swapped, and the new front buffer reads 247 there
\* while its neighbour (10,10) still reads the pattern.
C6_Witness ==
    /\ PlottedThenSwapped
    /\ vm.mode = MODE_4
    /\ lastPlot.x = 11
    /\ lastPlot.color = 503
    /\ GetPixel(frontBuffer, vram, 11, 10) = 247
    /\ GetPixel(frontBuffer, vram, 10, 10) = 9

(***************************************************************************)
(* Properties of the transfer channel                                      *)
(***************************************************************************)
\* The register writes of one dma3Fill32 / dma3Copy32 call, in program order.
DmaWrites == <<"SAD", "DAD", "CNT_L", "CNT_H">>

\* C8: dma3Fill32 and dma3Copy32 write a channel register only while the
\* channel's enable bit is clear; they write source, destination and count, in
\* that order, before the control word that sets the enable bit; and they return
\* only after all four writes, with the enable bit clear and no transfer left
\* running.
C8_ChannelHandshake ==
    /\ [][\A c \in Contexts :
            Len(dargs'[c].log) > Len(dargs[c].log) => ~GetDMAStatus]_vars
    /\ [](\A c \in Contexts : IsPrefix(dargs[c].log, DmaWrites))
    /\ [][(~GetDMAStatus /\ GetDMAStatus') =>
            \E c \in Contexts :
                /\ dargs[c].log = <<"SAD", "DAD", "CNT_L">>
                /\ dargs'[c].log = DmaWrites]_vars
    /\ [][\A c \in Contexts :
            (dpc[c] # "idle" /\ dpc'[c] = "idle") =>
                /\ dargs[c].log = DmaWrites
                /\ ~GetDMAStatus
                /\ ~active.on]_vars
    /\ [](GetDMAStatus <=> active.on)

\* C8 witness: the handler's copy has gone through the whole handshake and
\* returned, having been called while the application flow was waiting for its
\* own transfer.
C8_Witness ==
    /\ dpc["main"] = "wait2"
    /\ dpc["irq"] = "idle"
    /\ dargs["irq"].op = "copy"
    /\ dargs["irq"].log = DmaWrites
    /\ ~GetDMAStatus

\* C9 as stated: when the application flow and an interrupt handler both call
\* the transfer primitives, every transfer that starts runs with the source,
\* destination and count programmed by the caller that enabled it.
C9_ChannelExclusive ==
    active.on =>
        LET d == dargs[active.by] IN
        /\ active.src = (IF d.op = "fill" THEN ValueAddr(active.by) ELSE d.src)
        /\ active.dst = d.dst
        /\ active.count = U16(d.count)

(***************************************************************************)
(* Termination of the blocking calls                                       *)
(***************************************************************************)
\* The application flow is inside a Swap, FastFill, FastClear, FastCopy or
\* WaitForDMA call.
InCall == pc # "idle" \/ fast.op # "none" \/ dpc["main"] # "idle"

AtVSyncWait == pc = "vsync"

\* The call is in one of the polling loops and the enable bit reads as set.
AtBusyPoll ==
    /\ dpc["main"] \in {"wait1", "wait2"} \/ fast.op = "WaitForDMA"
    /\ GetDMAStatus

\* C10: provided the channel clears its enable bit some time after every enable
\* and vertical blank keeps arriving, every Swap, FastFill, FastClear and
\* FastCopy call returns; a call that cannot take its next step is at the
\* vertical-blank wait of Swap or at a busy poll before or after a transfer; and
\* a call at a busy poll stays there for as long as the enable bit is set.
C10_Termination ==
    /\ [](InCall => <>(~InCall))
    /\ [](InCall => (ENABLED ProgramStep) \/ AtVSyncWait \/ AtBusyPoll)
    /\ [][AtBusyPoll => (dpc'["main"] = dpc["main"] /\ fast'.op = fast.op)]_vars

\* C10 witness: a FastFill of a rectangle narrower than its 16-bit buffer is past
\* its first row and waits at the poll after enabling the next transfer.
C10_Witness ==
    /\ call = "FastFill"
    /\ fast.bb.bpp = 16
    /\ Len(fast.steps) \in 1..13
    /\ dpc["main"] = "wait2"
    /\ GetDMAStatus
    /\ active.by = "main"

(***************************************************************************)
(* Properties of the accelerated calls                                     *)
(***************************************************************************)
\* A FastFill, FastClear or FastCopy call has taken its last step.
AtReturn ==
    /\ fast.op \in {"FastFill", "FastClear", "FastCopy"}
    /\ fast.steps = <<>>
    /\ dpc["main"] = "idle"

\* Frame memory as the per-pixel equivalent of the call leaves it.
PlainResult ==
    IF fast.op = "FastCopy"
    THEN CopyFrom(fast.bb, fast.src, entry.mem, 0, 0, 0, 0,
                  fast.src.width, fast.src.height)
    ELSE FillRect(fast.bb, entry.mem, fast.rect.x, fast.rect.y,
                  fast.rect.width, fast.rect.height, fast.color)

\* C11 as stated: when FastFill(x,y,w,h,c) or FastCopy(src) returns, frame memory
\* is byte-identical to what FillRect(x,y,w,h,c), respectively
\* CopyFrom(src,0,0,0,0,src.width,src.height), makes of the memory the call
\* started from.
C11_FastEqualsPlain == AtReturn => vram = PlainResult

\* The call has reached dma3Fill32 or dma3Copy32 at least once.
UsedChannel == \E i \in 1..Len(fast.taken) : fast.taken[i].op \in {"fill", "copy"}

\* The clamped rectangle of the fill in progress.
FillArea == ClampRect(fast.bb, fast.rect.x, fast.rect.y, fast.rect.width,
                      fast.rect.height)

\* The call is a fill whose clamped rectangle has at least 64 pixels, or a copy
\* between buffers of equal depth whose destination has at least 128 pixels.
AtThreshold ==
    IF fast.op = "FastCopy"
    THEN fast.src.bpp = fast.bb.bpp /\ fast.bb.width * fast.bb.height >= 128
    ELSE /\ fast.op \in {"FastFill", "FastClear"}
         /\ FillArea.width > 0
         /\ FillArea.height > 0
         /\ FillArea.width * FillArea.height >= 64

\* The cases at the threshold in which the code goes to the channel: a fill that
\* is full-width, or in a 16bpp buffer and at least two pixels wide; a copy whose
\* source has the width and height of the destination.
ChannelDue ==
    /\ AtThreshold
    /\ IF fast.op = "FastCopy"
       THEN fast.src.width = fast.bb.width /\ fast.src.height = fast.bb.height
       ELSE \/ FillArea.x = 0 /\ FillArea.width = fast.bb.width
            \/ fast.bb.bpp = 16 /\ FillArea.width >= 2

Descriptors == SelectSeq(fast.taken, LAMBDA st : st.op \in {"fill", "copy"})

StoreBytes ==
    2 * Cardinality({i \in 1..Len(fast.taken) : fast.taken[i].op = "store16"})
    + Cardinality({i \in 1..Len(fast.taken) : fast.taken[i].op = "store8"})

\* The rectangle the call covers: the clamped rectangle of a fill, the whole
\* destination of a copy.
CallArea ==
    IF fast.op = "FastCopy"
    THEN [width |-> fast.bb.width, height |-> fast.bb.height, x |-> 0, y |-> 0]
    ELSE FillArea

BytesPerPixel == fast.bb.bpp \div 8

\* The address of pixel (x, y) of the destination.
AreaAddr(x, y) == fast.bb.base + (y * fast.bb.width + x) * BytesPerPixel

\* C13 as stated: when a call that used the channel returns, a rectangle narrower
\* than the buffer has been issued as one descriptor per row, the k-th at the
\* address of pixel (x, y+k) for the whole 32-bit words of the row, and a
\* full-width rectangle as one descriptor for the whole words of all its rows;
\* the bytes left over were written by ordinary writes.
C13_RowDecomposition ==
    (AtReturn /\ UsedChannel) =>
        LET a == CallArea
            rowBytes == a.width * BytesPerPixel
        IN IF a.x = 0 /\ a.width = fast.bb.width
           THEN /\ Len(Descriptors) = 1
                /\ Descriptors[1].dst = AreaAddr(0, a.y)
                /\ Descriptors[1].count = (rowBytes * a.height) \div 4
                /\ StoreBytes = (rowBytes * a.height) % 4
           ELSE /\ Len(Descriptors) = a.height
                /\ \A k \in 1..Len(Descriptors) :
                      /\ Descriptors[k].dst = AreaAddr(a.x, a.y + k - 1)
                      /\ Descriptors[k].count = rowBytes \div 4
                /\ StoreBytes = a.height * (rowBytes % 4)

\* The fields of a control word at the positions the flag constants give them:
\* element width at bit 10, source mode from bit 9, destination mode from bit 7,
\* start timing from bit 12.
WidthField(control) == (control \div 2^10) % 2

SourceField(control) == (control \div 2^9) % 4

DestField(control) == (control \div 2^7) % 4

TimingField(control) == (control \div 2^12) % 4

\* C14 as stated: the control word a primitive has just written reads as 32-bit,
\* incrementing destination, immediate start, and as fixed source for a fill and
\* incrementing source for a copy, so that the word of a fill is not the word
\* of a copy.
C14_ControlWord ==
    dpc["main"] = "wait2" =>
        /\ WidthField(DMA3CNT_H) = 1
        /\ DestField(DMA3CNT_H) = 0
        /\ TimingField(DMA3CNT_H) = 0
        /\ SourceField(DMA3CNT_H) = (IF dargs["main"].op = "fill" THEN 2 ELSE 0)
        /\ DMA3CNT_H # (IF dargs["main"].op = "fill" THEN CopyControl
                                                     ELSE FillControl)

(***************************************************************************)
(* Properties of the drawing calls                                         *)
(***************************************************************************)
\* A GetPixel has returned that read back the pixel the PlotPixel before it wrote.
ReadBack ==
    /\ call = "GetPixel"
    /\ lastPlot.valid
    /\ ret.bb.base = lastPlot.base
    /\ ret.args = <<lastPlot.x, lastPlot.y>>

\* A PlotPixel has returned that was given an in-range pixel.
PlottedInRange ==
    /\ call = "PlotPixel"
    /\ InBounds(ret.bb, ret.args[1], ret.args[2])

\* C15 as stated: PlotPixel of an in-range pixel succeeds, and the GetPixel of that
\* pixel that follows succeeds and returns the colour PlotPixel was given, whatever
\* the 16-bit colour and the depth of the buffer.
C15_Original ==
    /\ PlottedInRange => ~ret.err
    /\ ReadBack => (~ret.err /\ ret.value = lastPlot.color)

\* C15 amended: PlotPixel of an in-range pixel succeeds, and the GetPixel that
\* follows succeeds and returns the colour in a 16bpp buffer and the low byte of
\* the colour in an 8bpp buffer.
C15_PlotThenGet ==
    /\ PlottedInRange => ~ret.err
    /\ ReadBack => /\ ~ret.err
                   /\ ret.value = (IF ret.bb.bpp = 16 THEN lastPlot.color
                                   ELSE lastPlot.color % 256)

\* The colour 503 was plotted at the last pixel of a mode 4 page and read back
\* as 247.
C15_Witness ==
    /\ ReadBack
    /\ vm.mode = MODE_4
    /\ ret.bb \in ManagerBuffers
    /\ ret.args = <<SCREEN_WIDTH - 1, SCREEN_HEIGHT - 1>>
    /\ lastPlot.color = 503
    /\ ret.value = 247

\* A PlotPixel or GetPixel has returned that was given a pixel outside the buffer.
OutOfRangeCall ==
    /\ call \in {"PlotPixel", "GetPixel"}
    /\ ~(/\ ret.args[1] >= 0 /\ ret.args[1] < ret.bb.width
         /\ ret.args[2] >= 0 /\ ret.args[2] < ret.bb.height)

\* C16: PlotPixel of a pixel outside the buffer returns an error and GetPixel of
\* it returns 0 and an error; frame memory is as it was when the call began, and
\* what GetPixel returns does not depend on what frame memory holds.
C16_OutOfRange ==
    OutOfRangeCall =>
        /\ ret.err
        /\ ret.value = 0
        /\ vram = entry.mem
        /\ GetPixel(ret.bb, [a \in DOMAIN vram |-> 65535 - vram[a]], ret.args[1],
                    ret.args[2]) = 0

\* PlotPixel was given the column just past the right edge of a manager buffer.
C16_Witness ==
    /\ OutOfRangeCall
    /\ call = "PlotPixel"
    /\ ret.bb \in ManagerBuffers
    /\ ret.args[1] = ret.bb.width
    /\ ret.args[2] = 0
    /\ ret.err


\* A PlotPixel, PlotPixelFast or SetPixelMode4 has returned that was given a
\* pixel of its buffer.
PixelWritten ==
    /\ call \in {"PlotPixel", "PlotPixelFast", "SetPixelMode4"}
    /\ ret.args[1] >= 0 /\ ret.args[1] < ret.bb.width
    /\ ret.args[2] >= 0 /\ ret.args[2] < ret.bb.height

\* What pixel (px, py) of the buffer written to reads as in memory mem.
PixelIn(mem, px, py) ==
    IF call = "SetPixelMode4" THEN GetPixelMode4(mem, px, py)
    ELSE GetPixel(ret.bb, mem, px, py)

\* The pixels of the buffer written to that are stored in cell a.
PixelsOfCell(a) ==
    IF a < ret.bb.base THEN {}
    ELSE {i \in (IF ret.bb.bpp = 16 THEN {(a - ret.bb.base) \div 2}
                 ELSE {a - ret.bb.base, a - ret.bb.base + 1}) :
             i < ret.bb.width * ret.bb.height}

\* C17: a pixel write changes only the addressed pixel. After PlotPixel,
\* PlotPixelFast or SetPixelMode4 at an in-range (x, y), the pixel reads what
\* was written, every other pixel of the buffer (the one sharing the halfword
\* of an 8-bit pixel included) reads what it read before, and no cell other
\* than the one holding (x, y) has changed.
C17_OnlyAddressedPixel ==
    PixelWritten =>
        /\ ~ret.err
        /\ PixelIn(vram, ret.args[1], ret.args[2])
              = (IF ret.bb.bpp = 16 THEN ret.args[3] ELSE ret.args[3] % 256)
        /\ \A a \in DOMAIN vram : \A i \in PixelsOfCell(a) :
               i # ret.args[2] * ret.bb.width + ret.args[1] =>
                   PixelIn(vram, i % ret.bb.width, i \div ret.bb.width)
                     = PixelIn(entry.mem, i % ret.bb.width, i \div ret.bb.width)
        /\ \A a \in DOMAIN vram :
               vram[a] # entry.mem[a] =>
                   ret.args[2] * ret.bb.width + ret.args[1] \in PixelsOfCell(a)

\* An 8-bit pixel at an odd offset has been given a new value while the pixel
\* in the low byte of the same halfword holds another, non-zero one.
C17_Witness ==
    /\ PixelWritten
    /\ call \in {"PlotPixel", "PlotPixelFast"}
    /\ ret.bb.bpp = 8
    /\ ret.args[1] % 2 = 1 /\ ret.bb.width % 2 = 0
    /\ vram # entry.mem
    /\ PixelIn(vram, ret.args[1] - 1, ret.args[2]) # 0
    /\ PixelIn(vram, ret.args[1] - 1, ret.args[2])
          # PixelIn(vram, ret.args[1], ret.args[2])

\* A FillRect has returned; whether pixel (px, py) lies in the rectangle it was
\* given, [x, x + width) x [y, y + height).
FillRectDone == call = "FillRect"

InRect(px, py) ==
    /\ px >= ret.args[1] /\ px - ret.args[1] < ret.args[3]
    /\ py >= ret.args[2] /\ py - ret.args[2] < ret.args[4]

\* The pixels of the buffer, by index y * width + x, that are stored in the
\* tracked cells.
TrackedPixels == UNION {PixelsOfCell(a) : a \in DOMAIN vram}

\* The rectangle lies inside the buffer and is not empty.
RectInside ==
    /\ ret.args[1] >= 0 /\ ret.args[3] > 0
    /\ ret.args[1] <= ret.bb.width /\ ret.args[3] <= ret.bb.width - ret.args[1]
    /\ ret.args[2] >= 0 /\ ret.args[4] > 0
    /\ ret.args[2] <= ret.bb.height /\ ret.args[4] <= ret.bb.height - ret.args[2]

\* C18: FillRect(x, y, w, h, c) sets to c exactly the pixels in the
\* intersection of the rectangle with the buffer and changes no other pixel, for
\* every x, y, w and h; a rectangle inside the buffer sets w * h pixels, and one
\* whose clamped width or height is not positive changes nothing.
C18_FillRectExact ==
    FillRectDone =>
        /\ \A i \in TrackedPixels :
               GetPixel(ret.bb, vram, i % ret.bb.width, i \div ret.bb.width)
                 = (IF InRect(i % ret.bb.width, i \div ret.bb.width)
                    THEN ret.args[5]
                    ELSE GetPixel(ret.bb, entry.mem, i % ret.bb.width,
                                  i \div ret.bb.width))
        /\ (RectInside /\ ret.bb \in SmallBuffers) =>
               Cardinality({i \in TrackedPixels :
                               /\ InRect(i % ret.bb.width, i \div ret.bb.width)
                               /\ GetPixel(ret.bb, vram, i % ret.bb.width,
                                           i \div ret.bb.width) = ret.args[5]})
                 = ret.args[3] * ret.args[4]
        /\ (\/ ClampRect(ret.bb, ret.args[1], ret.args[2], ret.args[3],
                         ret.args[4]).width <= 0
            \/ ClampRect(ret.bb, ret.args[1], ret.args[2], ret.args[3],
                         ret.args[4]).height <= 0) => vram = entry.mem

\* A bounds-checked call on a buffer of the manager is under way or has
\* returned; the buffer it draws on.
CheckedCall ==
    \/ /\ call \in {"PlotPixel", "Clear", "FillRect", "DrawLine", "DrawCircle",
                     "FillCircle", "CopyFrom"}
       /\ ret.bb \in ManagerBuffers
    \/ /\ call \in {"FastFill", "FastClear", "FastCopy"}
       /\ fast.op # "none"

DrawnOn == IF call \in {"FastFill", "FastClear", "FastCopy"} THEN fast.bb ELSE ret.bb

\* Cell a lies outside the frame of the buffer drawn on.
OutsideFrame(a) == a < DrawnOn.base \/ a >= DrawnOn.base + vm.frameSize

\* The source pixel CopyFrom pairs with pixel (px, py) of the destination.
PairedX(px) == px - ret.args[3] + ret.args[1]

PairedY(py) == py - ret.args[4] + ret.args[2]

\* The source of the copy shares no byte with the frame of its destination.
SourceApart ==
    \/ ret.src.base >= ret.bb.base + vm.frameSize
    \/ ret.src.base + (ret.src.width * ret.src.height * ret.src.bpp) \div 8
          <= ret.bb.base

\* C19: no bounds-checked call writes outside its buffer. On a buffer of a
\* manager in mode 3, 4 or 5, PlotPixel, Clear, FillRect, DrawLine, DrawCircle,
\* FillCircle, CopyFrom, FastFill, FastClear and FastCopy, whatever their
\* arguments, leave every cell outside [base, base + frameSize) as it was, and
\* every pixel CopyFrom has changed is paired with an in-range source pixel,
\* whose value it holds when source and destination share no memory.
C19_WritesInsideFrame ==
    /\ CheckedCall =>
          \A a \in DOMAIN vram : OutsideFrame(a) => vram[a] = entry.mem[a]
    /\ (call = "CopyFrom" /\ ret.bb \in ManagerBuffers) =>
          \A i \in TrackedPixels :
             LET px == i % ret.bb.width
                 py == i \div ret.bb.width
             IN GetPixel(ret.bb, vram, px, py) # GetPixel(ret.bb, entry.mem, px, py) =>
                   /\ InBounds(ret.src, PairedX(px), PairedY(py))
                   /\ SourceApart =>
                      GetPixel(ret.bb, vram, px, py)
                        = (IF ret.bb.bpp = 16
                           THEN GetPixel(ret.src, entry.mem, PairedX(px), PairedY(py))
                           ELSE GetPixel(ret.src, entry.mem, PairedX(px), PairedY(py))
                                  % 256)

(***************************************************************************)
(* Properties of MemoryRegion                                              *)
(***************************************************************************)
\* The last call was an access to a region; its width in bytes; whether its
\* offset satisfies offset + width <= size in unbounded arithmetic.
RegionCall == call \in {"Read16", "Write16", "Read32", "Write32"}

AccessWidth == IF call \in {"Read16", "Write16"} THEN 2 ELSE 4

Fits ==
    /\ ret.args[2] < 16384
    /\ ret.args[2] * 65536 + ret.args[1] + AccessWidth <= ret.args[3]

\* C20: a region access is bounded. For every 32-bit offset, a read returns 0
\* and a write changes nothing unless offset + width <= size, and an access
\* that is carried out touches only the bytes offset .. offset + width - 1 of
\* the region, every other byte of memory keeping its value.
C20_RegionBounded ==
    RegionCall =>
        /\ ~Fits => ret.value = Word32(0, 0) /\ vram = entry.mem
        /\ trace # <<>> =>
               /\ Fits
               /\ \A i \in DOMAIN trace :
                      /\ trace[i] >= VRAM_BASE + ret.args[1]
                      /\ trace[i] < VRAM_BASE + ret.args[1] + AccessWidth
        /\ \A a \in DOMAIN vram : \A k \in {0, 1} :
               LoadByte(vram, a + k) # LoadByte(entry.mem, a + k) =>
                   /\ Fits
                   /\ a + k >= VRAM_BASE + ret.args[1]
                   /\ a + k < VRAM_BASE + ret.args[1] + AccessWidth


\* A Clear or Fill16 of a region has returned; byte i of the region lies inside
\* it.
RegionFilled == call \in {"RegionClear", "Fill16"}

\* The bytes of the tracked cells, as offsets from the base of the region.
TrackedBytes == {a + k - VRAM_BASE : a \in DOMAIN vram, k \in {0, 1}}

\* C21: for a region of any size, after Clear() every byte of the region is
\* zero, after Fill16(v) every 16-bit cell at an even offset that lies in the
\* region holds v, and neither changes a byte outside the region.
C21_ClearAndFill ==
    RegionFilled =>
        /\ call = "RegionClear" =>
               \A i \in TrackedBytes :
                  (i >= 0 /\ i < ret.args[3]) => LoadByte(vram, VRAM_BASE + i) = 0
        /\ call = "Fill16" =>
               \A i \in TrackedBytes :
                  (i >= 0 /\ i % 2 = 0 /\ i + 1 < ret.args[3]) =>
                      Load16(vram, VRAM_BASE + i) = ret.args[4]
        /\ \A i \in TrackedBytes :
               (i < 0 \/ i >= ret.args[3]) =>
                   LoadByte(vram, VRAM_BASE + i) = LoadByte(entry.mem, VRAM_BASE + i)


(***************************************************************************)
(* Properties of the mode configuration                                    *)
(***************************************************************************)
\* The manager's geometry is the one listed for its mode: the three bitmap
\* modes, and no bitmap geometry for the tile modes 0, 1 and 2.
GeometryAsListed ==
    /\ vm.mode = 3 => /\ vm.width = 240 /\ vm.height = 160 /\ vm.bpp = 16
                      /\ vm.frameSize = 76800
    /\ vm.mode = 4 => /\ vm.width = 240 /\ vm.height = 160 /\ vm.bpp = 8
                      /\ vm.frameSize = 38400
    /\ vm.mode = 5 => /\ vm.width = 160 /\ vm.height = 128 /\ vm.bpp = 16
                      /\ vm.frameSize = 40960
    /\ vm.mode \in {0, 1, 2} => /\ vm.width = 0 /\ vm.height = 0 /\ vm.bpp = 0
                                /\ vm.frameSize = 0

\* Modes 4 and 5, and no other, have two pages, the second 0xA000 bytes above
\* the first; in every other mode the back buffer is the current buffer on
\* page 0.
PagesAsListed ==
    /\ SupportsDoubleBuffering(vm) <=> vm.mode \in {4, 5}
    /\ vm.mode \in {4, 5} =>
          {GetCurrentBuffer(vm).base, GetBackBuffer(vm).base}
            = {VRAM_BASE, VRAM_BASE + 40960}
    /\ vm.mode \notin {4, 5} =>
          /\ GetBackBuffer(vm) = GetCurrentBuffer(vm)
          /\ GetCurrentBuffer(vm).base = VRAM_BASE

\* A NewDoubleBuffer or NewTripleBuffer that hands out an object does so for a
\* mode that has two pages.
ObjectOnlyForTwoPages ==
    (/\ call' = "New"
     /\ <<obj, vm, frontBuffer, backBuffer, displayBuffer>>'
          # <<obj, vm, frontBuffer, backBuffer, displayBuffer>>)
       => vm'.mode \in {4, 5}

\* C22: the mode configuration is a function of the mode selector, recomputed
\* by SetMode: mode 3 is 240x160 at 16 bpp in 76,800 bytes on one page, mode 4
\* is 240x160 at 8 bpp in 38,400 bytes and mode 5 is 160x128 at 16 bpp in 40,960
\* bytes, both on two pages with the second at VRAM base + 0xA000; only modes 4
\* and 5 support double buffering, in every other mode the back buffer is the
\* current buffer and no DoubleBuffer or TripleBuffer is handed out; the tile
\* modes 0 to 2 are accepted without bitmap geometry.
C22_ModeConfiguration ==
    /\ [](GeometryAsListed /\ PagesAsListed)
    /\ [][ObjectOnlyForTwoPages]_vars

(***************************************************************************)
(* Properties of tile slots                                                *)
(***************************************************************************)
\* The view, the slot and the data of a call on a tile view.
SlotView == ret.args[1]

SlotIndex == ret.args[2]

SlotBytes == IF SlotView.bpp = 4 THEN 32 ELSE 64

SlotValid == SlotIndex >= 0 /\ SlotIndex < SlotView.maxTiles

\* The tracked cells of the slot the call names.
SlotCells ==
    {a \in DOMAIN vram :
        /\ a >= SlotView.base + SlotIndex * SlotBytes
        /\ a < SlotView.base + (SlotIndex + 1) * SlotBytes}

ViewAsListed ==
    call = "GetCharacterData" =>
        IF ret.args[1] \notin 0..3 THEN ret.err /\ ret.value = NilTileData
        ELSE /\ ~ret.err
             /\ ret.value.base = VRAM_BASE + 16384 * ret.args[1]
             /\ ret.value.bpp = ret.args[2]
             /\ ret.args[2] = 4 => ret.value.maxTiles = 512
             /\ ret.args[2] = 8 => ret.value.maxTiles = 256
             /\ ret.value.maxTiles * (IF ret.args[2] = 4 THEN 32 ELSE 64) = 16384

\* GetTile(i) straight after a LoadTile(i, d) or a ClearTile(i) that succeeded
SlotReadBack(write) ==
    /\ call = "GetTile"
    /\ trace = <<write>>
    /\ ~hist[1].err
    /\ hist[1].args[2] = SlotIndex

LoadThenGet ==
    SlotReadBack("LoadTile") => ~ret.err /\ ret.value = hist[1].args[3]

ClearThenGet ==
    SlotReadBack("ClearTile") => ~ret.err /\ ret.value = [k \in 1..SlotBytes |-> 0]

OtherSlotsKept ==
    call \in TileWrites =>
        \A a \in DOMAIN vram \ SlotCells : vram[a] = entry.mem[a]

SlotErrors ==
    /\ call \in {"GetTile", "ClearTile"} => (ret.err <=> ~SlotValid)
    /\ call = "LoadTile" =>
          (ret.err <=> ~(SlotValid /\ Len(ret.args[3]) = SlotBytes))
    /\ call \in {"LoadTile", "GetTile", "ClearTile"} /\ ret.err =>
          vram = entry.mem /\ ret.value = <<>>

\* C23: GetCharacterData returns nil for a block id outside 0..3 and otherwise
\* a view of 512 slots of 32 bytes (4bpp) or 256 slots of 64 bytes (8bpp);
\* GetTile after a successful LoadTile of the same slot returns the data loaded
\* and after a successful ClearTile returns zero bytes; LoadTile and ClearTile
\* change no byte outside their slot; and each of LoadTile, GetTile and
\* ClearTile returns an error exactly for an out-of-range index or a wrong data
\* length and then leaves memory unchanged.
C23_TileSlots ==
    /\ ViewAsListed
    /\ LoadThenGet
    /\ ClearThenGet
    /\ OtherSlotsKept
    /\ SlotErrors

\* The last slot of an 8bpp view of the last block is loaded and read back.
C23_Witness ==
    /\ SlotReadBack("LoadTile")
    /\ SlotView = [bpp |-> 8, base |-> VRAM_BASE + 3 * 16384, charBlock |-> 3,
                   maxTiles |-> 256]
    /\ SlotIndex = 255
    /\ ret.value = TileBytes(64, 255)
    /\ \E a \in DOMAIN vram : vram[a] # Pattern(a)

(***************************************************************************)
(* Properties of map entries                                               *)
(***************************************************************************)
\* The view of a call on a map view, and the tile index and the attributes a
\* SetTile was given.
MapView == ret.args[1]

LowTen(t) == t % 1024

HighSix(a) == a - (a % 1024)

\* GetTile(x, y) straight after a SetTile(x, y, t, a) that succeeded
EntryReadBack ==
    /\ call = "ScreenGetTile"
    /\ trace = <<"SetTile">>
    /\ ~hist[1].err
    /\ <<hist[1].args[2], hist[1].args[3]>> = <<ret.args[2], ret.args[3]>>

\* The entry that in-bounds coordinates name, or 1024 for any entry past the
\* first 1024.
EntryNamed ==
    IF ret.args[3] = 0 THEN ret.args[2]
    ELSE IF MapView.width > 1023 \/ ret.args[3] > 1023 THEN 1024
    ELSE ret.args[3] * MapView.width + ret.args[2]

EntryStored ==
    call = "SetTile" /\ ~ret.err /\ EntryNamed \in 0..1023 =>
        vram[MapView.base + 2 * EntryNamed]
            = LowTen(ret.args[4]) + HighSix(ret.args[5])

EntryDecoded ==
    EntryReadBack =>
        /\ ~ret.err
        /\ ret.value.tileIndex = LowTen(hist[1].args[4])
        /\ ret.value.attributes = HighSix(hist[1].args[5])

AttributeHelpers ==
    /\ call = "SetTilePalette" =>
          ret.value % 4096 = 0 /\ ret.value \div 4096 = ret.args[1] % 16
    /\ call = "SetTileFlip" =>
          ret.value = (IF ret.args[1] THEN 2^10 ELSE 0) + (IF ret.args[2] THEN 2^11 ELSE 0)
    /\ call = "CombineTileAttributes" =>
          \A i \in 0..15 :
             Bit(ret.value, i) = 1 <=> \E k \in 1..Len(ret.args) : Bit(ret.args[k], i) = 1

\* SetTile(5,5,7,SetTilePalette(3)) then GetTile(5,5) on ScreenBlock(0,32,32)
Scenario ==
    /\ EntryReadBack
    /\ MapView = [width |-> 32, height |-> 32, base |-> VRAM_BASE,
                  screenBlock |-> 0, maxEntries |-> 1024]
    /\ <<ret.args[2], ret.args[3]>> = <<5, 5>>
    /\ hist[1].args[4] = 7
    /\ hist[1].args[5] = 3 * 4096

ScenarioDecoded ==
    Scenario => ret.value.tileIndex = 7 /\ ret.value.attributes \div 4096 = 3

\* No tracked cell outside the 2 KB of the view's screen block has changed.
InsideBlock ==
    call \in MapWrites =>
        \A a \in DOMAIN vram :
            vram[a] # entry.mem[a] => a >= MapView.base /\ a < MapView.base + 2048

MapLayout == EntryStored /\ EntryDecoded /\ AttributeHelpers /\ ScenarioDecoded

\* C24: SetTile stores (t & 0x3FF) | (a & 0xFC00) and GetTile returns the two
\* parts, with SetTilePalette, SetTileFlip and CombineTileAttributes placing
\* palette, flips and the OR of attributes as listed; and SetTile, SetTileRect,
\* FillScreen and ClearScreen write only inside the 2 KB of their screen
\* block, whatever the width and height of the view.
C24_MapEntries == MapLayout /\ InsideBlock

(***************************************************************************)
(* Properties of invalid indices                                           *)
(***************************************************************************)
\* The call was given a block id, a slot, a coordinate, a tile index or a
\* palette outside its range.
BadBlock ==
    \/ call = "GetCharacterData" /\ ret.args[1] \notin 0..3
    \/ call = "GetScreenData" /\ ret.args[1] \notin 0..31

BadSlot == call \in {"LoadTile", "GetTile", "ClearTile"} /\ ~SlotValid

BadCoordinate ==
    /\ call \in {"SetTile", "ScreenGetTile"}
    /\ ~(ret.args[2] \in 0..(MapView.width - 1) /\ ret.args[3] \in 0..(MapView.height - 1))

BadTileIndex ==
    \/ call = "SetTile" /\ ret.args[4] \notin 0..1023
    \/ call = "FillScreen" /\ ret.args[2] \notin 0..1023
    \/ call = "SetTileRect" /\ ret.args[6] \notin 0..1023

BadPalette == call = "SetTilePalette" /\ ret.args[1] \notin 0..15

Surfaced == ret.err /\ vram = entry.mem

\* C25: a call given a character-block id, a screen-block id, a tile slot, a
\* map coordinate, a tile index or a palette outside its valid range returns
\* an explicit failure (a nil view or an error) and writes nothing.
C25_InvalidIndexSurfaced ==
    BadBlock \/ BadSlot \/ BadCoordinate \/ BadTileIndex \/ BadPalette => Surfaced

(***************************************************************************)
(* Properties of the addresses given to the channel                        *)
(***************************************************************************)
\* C26: the source and the destination address that a FastFill or a FastCopy
\* on a buffer of the manager programs into the 32-bit channel are multiples
\* of 4, for every rectangle.
C26_AlignedTransfers == DMA3SAD % 4 = 0 /\ DMA3DAD % 4 = 0

(***************************************************************************)
(* Properties of AnalyzeVRAMAddress                                        *)
(***************************************************************************)
AnalyzedAddr == ret.args[1]

AnalyzedMode == ret.args[2]

\* The in-range pixels that a page of the analysed mode stores at the address.
PixelsAt ==
    {q \in {<<bb, x, y>> : bb \in PagesOf(AnalyzedMode),
                           x \in {0, 1, 2, 17, 100, 159, 239},
                           y \in {0, 1, 9, 10, 127, 159}} :
        /\ InBounds(q[1], q[2], q[3])
        /\ Uintptr(getPixelAddr(q[1], q[2], q[3])) = AnalyzedAddr}

\* The address lies in VRAM: from VRAM_BASE up to VRAM_BASE + VRAM_SIZE - 1,
\* compared halfword by halfword.
InsideVRAM(addr) ==
    LET first == VRAM_BASE
        last  == VRAM_BASE + VRAM_SIZE - 1
    IN /\ <<addr.hi, addr.lo>> \in
             {<<h, l>> : h \in (first \div 65536)..(last \div 65536), l \in {addr.lo}}
       /\ addr.hi = first \div 65536 => addr.lo >= first % 65536
       /\ addr.hi = last \div 65536 => addr.lo <= last % 65536

InvertsPixels ==
    call = "AnalyzeVRAMAddress" /\ AnalyzedMode \in {MODE_3, MODE_4, MODE_5} =>
        \A q \in PixelsAt :
            ret.value.Valid /\ ret.value.PixelX = q[2] /\ ret.value.PixelY = q[3]

OutsideNotValid ==
    call = "AnalyzeVRAMAddress" /\ ~InsideVRAM(AnalyzedAddr) => ~ret.value.Valid

\* C27: for modes 3, 4 and 5 and each page of the mode, AnalyzeVRAMAddress of
\* the address at which the page's BitmapBuffer stores an in-range pixel
\* (x, y) reports Valid, PixelX = x and PixelY = y; and an address outside
\* VRAM is reported as not Valid.
C27_AnalyzeInverts == InvertsPixels /\ OutsideNotValid

(***************************************************************************)
(* Properties of DrawLine                                                  *)
(***************************************************************************)
InLine == call = "DrawLine" /\ pc = "line"

LineDone == call = "DrawLine" /\ pc = "idle"

Distance(a, b) == IF a < b THEN b - a ELSE a - b

\* The points emitted so far start at (x1, y1) and move by at most one step
\* in x and one step in y.
LinePath ==
    /\ hist # <<>> => hist[1].x = ret.args[1] /\ hist[1].y = ret.args[2]
    /\ \A i \in 1..(Len(hist) - 1) :
          /\ Distance(hist[i].x, hist[i + 1].x) <= 1
          /\ Distance(hist[i].y, hist[i + 1].y) <= 1
          /\ hist[i] # hist[i + 1]

\* Each emitted point was plotted exactly if it is inside the buffer: a point
\* inside reads back as the colour, and no other tracked cell has changed.
LinePlots ==
    /\ \A i \in 1..Len(hist) :
          /\ hist[i].valid <=>
                /\ hist[i].x >= 0 /\ hist[i].x < ret.bb.width
                /\ hist[i].y >= 0 /\ hist[i].y < ret.bb.height
          /\ hist[i].valid /\ PixelWord(ret.bb, hist[i].x, hist[i].y) \in DOMAIN vram =>
                GetPixel(ret.bb, vram, hist[i].x, hist[i].y) =
                   (IF ret.bb.bpp = 16 THEN ret.args[5] ELSE ret.args[5] % 256)
    /\ \A a \in DOMAIN vram :
          vram[a] # entry.mem[a] =>
             \E i \in 1..Len(hist) :
                hist[i].valid /\ a = (IF ret.bb.bpp = 16
                                      THEN getPixelAddr(ret.bb, hist[i].x, hist[i].y)
                                      ELSE PixelWord(ret.bb, hist[i].x, hist[i].y))

\* The loop is left at (x2, y2), after at most |x2 - x1| + |y2 - y1| + 1 turns.
LineEnds ==
    /\ LineDone =>
          /\ hist[Len(hist)].x = ret.args[3] /\ hist[Len(hist)].y = ret.args[4]
          /\ vram = DrawLine(ret.bb, entry.mem, ret.args[1], ret.args[2],
                             ret.args[3], ret.args[4], ret.args[5])
    /\ call = "DrawLine" =>
          Len(hist) <= Distance(ret.args[1], ret.args[3])
                       + Distance(ret.args[2], ret.args[4]) + 1

LineTrajectory == call = "DrawLine" => LinePath /\ LinePlots /\ LineEnds

LatestPoll == IF Len(hist) >= 1 THEN hist[Len(hist)] ELSE 1023

PreviousPoll == IF Len(hist) >= 2 THEN hist[Len(hist) - 1] ELSE 1023

DownIn(keyinput, key) == BitAnd(keyinput, key) = 0

\* The package variables hold the last two values polled.
PollsKept == currentState = LatestPoll /\ lastState = PreviousPoll

\* BtnDown and BtnUp answer for the latest poll.
DownAsPolled ==
    /\ call = "BtnDown" => ret.value = DownIn(LatestPoll, ret.args[1])
    /\ call = "BtnUp" => ret.value = ~DownIn(LatestPoll, ret.args[1])

\* WasBtnDown answers for the previous poll.
WasDownAsPolled ==
    call = "WasBtnDown" => ret.value = DownIn(PreviousPoll, ret.args[1])

\* BtnClicked answers "down now and not down before".
ClickedAsPolled ==
    call = "BtnClicked" =>
        ret.value = (DownIn(LatestPoll, ret.args[1])
                        /\ ~DownIn(PreviousPoll, ret.args[1]))

\* A key held down across the last two polls is not reported as clicked.
HeldNotClicked ==
    (call = "BtnClicked" /\ DownIn(LatestPoll, ret.args[1])
        /\ DownIn(PreviousPoll, ret.args[1])) => ret.value = FALSE

\* C29: after any sequence of polls WasBtnDown(key) is true exactly when the
\* key was down in the previous poll, BtnClicked(key) is true exactly when the
\* key is down in the latest poll and was not down in the previous one, and a
\* key held down across two polls is not reported as clicked.
C29_ClickDetection ==
    /\ PollsKept
    /\ DownAsPolled
    /\ WasDownAsPolled
    /\ ClickedAsPolled
    /\ HeldNotClicked

(***************************************************************************)
(* Properties of Display()                                                 *)
(***************************************************************************)
\* A step that is a call of Display().
DisplayStep == call' = "Display" /\ Len(hist') = Len(hist) + 1

OtherBitsKept == \A i \in (0 .. 15) \ {4} : Bit(DISPCNT', i) = Bit(DISPCNT, i)

PageBitToggled == Bit(DISPCNT', 4) # Bit(DISPCNT, 4)

\* C30: every call to Display() toggles the page-select bit (bit 4) of DISPCNT
\* and leaves every other bit unchanged, so the displayed page alternates on
\* each call.
C30_DisplayFlips == [][DisplayStep => (PageBitToggled /\ OtherBitsKept)]_vars


====
